---- MODULE Spec2Model ----
(***************************************************************************)
(* Model of the Input class of src/src/Input.js: a MIDI input port that    *)
(* owns 16 channels, a port-wide listener registry, one registry per       *)
(* channel and a list of forwarders.                                       *)
(*                                                                         *)
(* Collaborators whose code is not part of src/ (Message, InputChannel,    *)
(* Utilities, Enumerations, the EventEmitter base class) are modelled from *)
(* the prose specification and are marked as such where they are defined.  *)
(***************************************************************************)
EXTENDS Integers, Sequences, FiniteSets, TLC

\* ------------------------------------------------------------------------
\* Bounds of the model
\* ------------------------------------------------------------------------

\* Number of addListener calls explored in one behaviour.
MaxAdds == 2

\* Longest forwarder list explored.
MaxForwarders == 2

\* Number of messages the transport delivers in one burst.
MaxBurst == 2

\* Longest forwarder list explored when forwarders are attached and removed:
\* room for a forwarder attached twice between two others.
MaxAttached == 4

\* Number of control changes explored after a null parameter number.
MaxTail == 3

\* ------------------------------------------------------------------------
\* Program constants
\* ------------------------------------------------------------------------

\* for (let i = 1; i <= 16; i++) this.channels[i] = new InputChannel(this, i)
NumChannels == 16

\* Enumerations.MIDI_CHANNEL_NUMBERS: [1, 2, ..., 16]
MIDI_CHANNEL_NUMBERS == [i \in 1..NumChannels |-> i]

\* JavaScript's undefined, for an absent event name or callback.
Undefined == "undefined"

\* JavaScript's Infinity, the default of Listener.remaining.
Infinity == 0 - 1

\* The number-qualified control change names, controlchange-<0..127>.
ControlChangeNames ==
  << "controlchange-0", "controlchange-1", "controlchange-2",
     "controlchange-3", "controlchange-4", "controlchange-5",
     "controlchange-6", "controlchange-7", "controlchange-8",
     "controlchange-9", "controlchange-10", "controlchange-11",
     "controlchange-12", "controlchange-13", "controlchange-14",
     "controlchange-15", "controlchange-16", "controlchange-17",
     "controlchange-18", "controlchange-19", "controlchange-20",
     "controlchange-21", "controlchange-22", "controlchange-23",
     "controlchange-24", "controlchange-25", "controlchange-26",
     "controlchange-27", "controlchange-28", "controlchange-29",
     "controlchange-30", "controlchange-31", "controlchange-32",
     "controlchange-33", "controlchange-34", "controlchange-35",
     "controlchange-36", "controlchange-37", "controlchange-38",
     "controlchange-39", "controlchange-40", "controlchange-41",
     "controlchange-42", "controlchange-43", "controlchange-44",
     "controlchange-45", "controlchange-46", "controlchange-47",
     "controlchange-48", "controlchange-49", "controlchange-50",
     "controlchange-51", "controlchange-52", "controlchange-53",
     "controlchange-54", "controlchange-55", "controlchange-56",
     "controlchange-57", "controlchange-58", "controlchange-59",
     "controlchange-60", "controlchange-61", "controlchange-62",
     "controlchange-63", "controlchange-64", "controlchange-65",
     "controlchange-66", "controlchange-67", "controlchange-68",
     "controlchange-69", "controlchange-70", "controlchange-71",
     "controlchange-72", "controlchange-73", "controlchange-74",
     "controlchange-75", "controlchange-76", "controlchange-77",
     "controlchange-78", "controlchange-79", "controlchange-80",
     "controlchange-81", "controlchange-82", "controlchange-83",
     "controlchange-84", "controlchange-85", "controlchange-86",
     "controlchange-87", "controlchange-88", "controlchange-89",
     "controlchange-90", "controlchange-91", "controlchange-92",
     "controlchange-93", "controlchange-94", "controlchange-95",
     "controlchange-96", "controlchange-97", "controlchange-98",
     "controlchange-99", "controlchange-100", "controlchange-101",
     "controlchange-102", "controlchange-103", "controlchange-104",
     "controlchange-105", "controlchange-106", "controlchange-107",
     "controlchange-108", "controlchange-109", "controlchange-110",
     "controlchange-111", "controlchange-112", "controlchange-113",
     "controlchange-114", "controlchange-115", "controlchange-116",
     "controlchange-117", "controlchange-118", "controlchange-119",
     "controlchange-120", "controlchange-121", "controlchange-122",
     "controlchange-123", "controlchange-124", "controlchange-125",
     "controlchange-126", "controlchange-127" >>

\* InputChannel.EVENTS: the closed table of channel-scoped event names.
InputChannel_EVENTS ==
  { "noteoff", "noteon", "keyaftertouch", "controlchange", "programchange",
    "channelaftertouch", "pitchbend", "allnotesoff", "allsoundoff",
    "localcontrol", "monomode", "omnimode", "resetallcontrollers",
    "nrpn", "nrpn-dataentrycoarse", "nrpn-dataentryfine",
    "nrpn-databuttonincrement", "nrpn-databuttondecrement",
    "rpn", "rpn-dataentrycoarse", "rpn-dataentryfine",
    "rpn-databuttonincrement", "rpn-databuttondecrement" }
    \cup { ControlChangeNames[i] : i \in DOMAIN ControlChangeNames }

\* ------------------------------------------------------------------------
\* Inputs explored by the model
\* ------------------------------------------------------------------------

\* Event names passed to addListener / hasListener / removeListener:
\* two channel-scoped names and two input-wide names.
ListenerEvents == {"noteon", "controlchange", "midimessage", "clock"}

\* Callback functions.
Callbacks == {"f", "g"}

\* An options object is a record that holds only the keys the caller set.
NoOptions == [k \in {} |-> 0]

Has(o, key) == key \in DOMAIN o

\* options.channels: left out, two channels, or a list with an entry that is
\* no channel number.
WithChannels == {NoOptions, [channels |-> <<1, 3>>], [channels |-> <<1, 17>>]}

WithContext == {NoOptions, [context |-> "ctxA"]}

WithRemaining == {NoOptions, [remaining |-> 1]}

OptionObjects == { a @@ b @@ c : a \in WithChannels, b \in WithContext, c \in WithRemaining }

\* Options objects as a caller writes them before passing one to several
\* calls: empty, with two channels, with a count, with a context.
OptionsWritten ==
  { NoOptions, [channels |-> <<1, 3>>], [remaining |-> 2], [context |-> "ctxA"] }

\* Event names of the calls that share an options object: one
\* channel-specific, one input-wide.
SharedEvents == {"noteon", "clock"}

\* A note on channel 1.
SharedFrames == { <<144, 4, 127>> }

\* Forwarder objects handed to (or created by) addForwarder.
Forwarders == {"fwA", "fwB"}

\* Forwarder objects attached and removed in the forwarder API, and the
\* frames received meanwhile: a system and a channel message.
ForwarderHandles == {"fwA", "fwB", "fwC"}

ForwarderFrames == { <<248>>, <<144, 4, 127>> }

\* Raw MIDI frames delivered by the transport: status byte, then data bytes.
\* Channel messages of channels 1, 3 and 16, every system status byte
\* 0xF0..0xFF, the reserved ones (0xF4, 0xF5, 0xF7, 0xF9, 0xFD) included.
StatusBytes == {128, 144, 146, 176, 178, 239} \cup (240..255)

DataBytes == {4, 127}

Frames == { <<s, d1, 0>> : s \in StatusBytes, d1 \in DataBytes }

\* addListener calls made while messages are being received.
TrafficAddCalls ==
  { <<"noteon", "f", NoOptions>>,
    <<"noteon", "f", [channels |-> <<1, 3>>, remaining |-> 1]>>,
    <<"controlchange", "f", [channels |-> <<1, 3>>]>>,
    <<"midimessage", "f", NoOptions>>,
    <<"clock", "f", [remaining |-> 1]>> }

\* removeListener calls made while messages are being received.
TrafficRemoveCalls == { <<e, Undefined, NoOptions>> : e \in ListenerEvents \cup {Undefined} }

\* addListener calls of the subscription API: every options object for one
\* channel-scoped event, every context and count for one input-wide event,
\* a second callback and a second event name of each family, and an
\* input-wide event with a channel list.
AddCalls ==
  { <<"noteon", "f", o>> : o \in OptionObjects }
    \cup { <<"clock", "f", b @@ c>> : b \in WithContext, c \in WithRemaining }
    \cup { <<"noteon", "g", NoOptions>>, <<"controlchange", "f", NoOptions>>,
           <<"midimessage", "f", NoOptions>>,
           <<"clock", "f", [channels |-> <<1, 3>>]>>,
           <<"clock", "f", [channels |-> <<1, 17>>]>> }

\* hasListener calls of the subscription API.
HasCalls ==
  { <<e, l, o>> : e \in {"noteon", "clock"}, l \in {"f", Undefined},
                  o \in WithChannels \cup {[channels |-> <<1, 2, 3>>]} }

\* removeListener calls of the subscription API.
RemoveCalls ==
  { <<e, l, o>> : e \in {Undefined, "noteon", "clock"}, l \in {Undefined, "f", "g"},
                  o \in OptionObjects }

\* Frames as the transport frames them, one per status byte family: channel
\* messages, system exclusive, the fixed system messages with their 0, 1 or
\* 2 data bytes, song select with every data byte 0..127, and the reserved
\* status bytes.
TransportFrames ==
  { <<144, 4, 127>>, <<178, 4, 0>>, <<240, 1, 247>>, <<241, 4>>, <<242, 4, 0>>,
    <<246>>, <<248>>, <<250>>, <<251>>, <<252>>, <<254>>, <<255>>,
    <<244>>, <<245>>, <<247>>, <<249>>, <<253>> }
    \cup { <<243, v>> : v \in 0..127 }

\* The MIDIPort of a statechange notification: its connection and state, and
\* the identity fields of the device.
PortStates ==
  { [ connection   |-> c,
      state        |-> st,
      id           |-> "port-id",
      manufacturer |-> "port-manufacturer",
      name         |-> "port-name",
      type         |-> "input" ] :
    c \in {"open", "closed", "pending"}, st \in {"connected", "disconnected"} }

\* addListener calls made by a program that watches the transport.
TransportAddCalls ==
  { <<"songselect", "f", NoOptions>>,
    <<"clock", "f", NoOptions>>,
    <<"unknownmidimessage", "f", [remaining |-> 1]>>,
    <<"opened", "f", NoOptions>>,
    <<"disconnected", "g", [remaining |-> 1]>>,
    <<"noteon", "f", [channels |-> <<1>>]>> }

\* Calls and frames of a program whose listeners count their invocations:
\* listeners good for one or two invocations or for any number, on channels
\* 1 and 3 or on the port.
CountedAddCalls ==
  { <<"noteon", "f", [channels |-> <<1, 3>>, remaining |-> 2]>>,
    <<"noteon", "g", [channels |-> <<1, 3>>]>>,
    <<"controlchange", "f", [channels |-> <<1, 3>>, remaining |-> 1]>>,
    <<"midimessage", "f", [remaining |-> 2]>> }

OneTimeCalls ==
  { <<"noteon", "f", [channels |-> <<1, 3>>]>>,
    <<"noteon", "g", [channels |-> <<1, 3>>, remaining |-> 2]>>,
    <<"clock", "f", [remaining |-> 2]>>,
    <<"noteon", "f", [channels |-> <<1, 17>>]>> }

CountedRemoveCalls ==
  { <<"noteon", Undefined, [channels |-> <<1>>]>>,
    <<"noteon", "f", [channels |-> <<3>>, remaining |-> 1]>> }

CountedFrames ==
  { <<144, 4, 127>>, <<145, 4, 127>>, <<146, 4, 127>>, <<176, 4, 0>>, <<248>> }

\* Callbacks of a program that unsubscribes from inside a listener: "f" and
\* "g" call nothing, "dropF" calls input.removeListener("noteon", f) and
\* "dropNoteon" calls input.removeListener("noteon"), which names the
\* listener that is running as well.
LoopCallbacks == {"f", "dropF", "dropNoteon"}

NoCallbackCall == [op |-> "none", args |-> <<Undefined, Undefined, NoOptions>>]

CallbackCall(callback) ==
  CASE callback = "dropF" ->
         [op |-> "removeListener", args |-> <<"noteon", "f", NoOptions>>]
    [] callback = "dropNoteon" ->
         [op |-> "removeListener", args |-> <<"noteon", Undefined, NoOptions>>]
    [] OTHER -> NoCallbackCall

\* addListener calls of that program.
LoopAddCalls ==
  { <<"noteon", "f", [channels |-> <<1>>]>>,
    <<"noteon", "dropF", [channels |-> <<1>>]>>,
    <<"noteon", "dropNoteon", [channels |-> <<1>>]>>,
    <<"midimessage", "dropF", NoOptions>> }

\* Frames of a burst: a note on channel 1 and a clock tick.
LoopFrames == { <<144, 4, 127>>, <<248>> }

\* Callbacks that change the forwarder list while a message is handled:
\* attachB attaches the forwarder fwB unless hasForwarder(fwB), detachA
\* calls removeForwarder(fwA).
ThruCallbacks == {"attachB", "detachA"}

\* this._forwarders after the callback has run.
CallbackForwarders(callback, fws) ==
  CASE callback = "attachB" ->
         IF \E i \in DOMAIN fws : fws[i] = "fwB" THEN fws ELSE Append(fws, "fwB")
    [] callback = "detachA" ->
         LET Other(item) == item # "fwA" IN SelectSeq(fws, Other)
    [] OTHER -> fws

\* The forwarder call the callback makes on the port, as a log entry.
CallbackForwarderCall(callback) ==
  CASE callback = "attachB" -> [op |-> "addForwarder", forwarder |-> "fwB"]
    [] callback = "detachA" -> [op |-> "removeForwarder", forwarder |-> "fwA"]
    [] OTHER -> [op |-> "none", forwarder |-> Undefined]

\* addListener calls of the program with those callbacks.
ThruAddCalls ==
  { <<"noteon", "attachB", [channels |-> <<1>>]>>,
    <<"noteon", "detachA", [channels |-> <<1>>]>>,
    <<"midimessage", "attachB", NoOptions>>,
    <<"clock", "detachA", NoOptions>>,
    <<"noteon", "f", [channels |-> <<1>>]>> }

\* Control changes on two channels: on channel 1 the RPN selection, data
\* entry and local control, on channel 16 the NRPN selection and mono mode,
\* and a note on each.
ChannelFrames ==
  { <<176, n, v>> : n \in {101, 100, 6, 38, 122}, v \in {3, 127} }
    \cup { <<191, n, 127>> : n \in {99, 98, 6, 126} }
    \cup { <<144, 4, 127>>, <<159, 4, 127>> }

\* Listeners of derived events and of control changes on those channels.
ChannelAddCalls ==
  { <<"rpn", "f", [channels |-> <<1>>, remaining |-> 1]>>,
    <<"controlchange", "f", [channels |-> <<16>>, remaining |-> 1]>>,
    <<"nrpn", "f", [channels |-> <<1, 16>>]>> }

\* The control numbers that select a parameter, by parameter type.
SelectNumbers == [rpn |-> [msb |-> 101, lsb |-> 100], nrpn |-> [msb |-> 99, lsb |-> 98]]

\* The values of a data byte.
DataByte == 0..127

\* A parameter is selected and given a value on channel 1: the frames that
\* may come n-th in the sequence select-MSB, select-LSB, data-entry-MSB =
\* msb, data-entry-LSB = lsb, for both parameter types and every msb and
\* lsb; first is the frame the sequence began with.
ParameterFrames(n, first) ==
  CASE n = 1 -> { <<176, SelectNumbers[t].msb, 0>> : t \in {"rpn", "nrpn"} }
    [] n = 2 -> { <<176, IF first[2] = SelectNumbers.rpn.msb
                         THEN SelectNumbers.rpn.lsb ELSE SelectNumbers.nrpn.lsb, 1>> }
    [] n = 3 -> { <<176, 6, msb>> : msb \in DataByte }
    [] n = 4 -> { <<176, 38, lsb>> : lsb \in DataByte }
    [] OTHER -> {}

\* The matching LSB control number of a select-MSB frame.
LsbNumberOf(frame) ==
  IF frame[2] = SelectNumbers.rpn.msb THEN SelectNumbers.rpn.lsb ELSE SelectNumbers.nrpn.lsb

\* A parameter is selected on channel 1 and a data-entry MSB received, then
\* the null parameter number (127, 127) of either type, then control
\* changes of data entry, data buttons and of a new selection: the frames
\* that may come n-th, previous being the frame before.
NullFrames(n, previous) ==
  CASE n = 1 -> { <<176, SelectNumbers[t].msb, 0>> : t \in {"rpn", "nrpn"} }
    [] n = 2 -> { <<176, LsbNumberOf(previous), 1>> }
    [] n = 3 -> { <<176, 6, 5>> }
    [] n = 4 -> { <<176, SelectNumbers[t].msb, 127>> : t \in {"rpn", "nrpn"} }
    [] n = 5 -> { <<176, LsbNumberOf(previous), 127>> }
    [] n \in 6..(5 + MaxTail) ->
         { <<176, 6, 5>>, <<176, 38, 5>>, <<176, 96, 0>>, <<176, 97, 0>>,
           <<176, 101, 0>>, <<176, 100, 1>> }
    [] OTHER -> {}

\* JavaScript values assigned to octaveOffset: numbers, written in tenths so
\* that 1.5 is a value, and strings.
Number(n) == [t |-> "number", tenths |-> 10 * n]

OffsetValues ==
  { Number(0), Number(2), Number(0 - 1), [t |-> "number", tenths |-> 15],
    [t |-> "string", s |-> "2"], [t |-> "string", s |-> "abc"] }

\* Errors with which the transport may reject MIDIInput.open() or close().
TransportErrors == {"InvalidAccessError", "InvalidStateError"}

\* What the transport answers to open() or close(): it accepts, or rejects
\* with one of its errors.
TransportOutcomes ==
  { [ok |-> TRUE, err |-> Undefined] } \cup { [ok |-> FALSE, err |-> e] : e \in TransportErrors }

\* Calls and notifications in the life of a port, from construction to
\* after its destruction.
LifecycleAddCalls ==
  { <<"noteon", "f", [channels |-> <<1>>]>>, <<"clock", "f", NoOptions>>,
    <<"opened", "f", NoOptions>> }

LifecycleFrames == { <<248>>, <<144, 4, 127>> }

LifecyclePorts ==
  { [connection |-> c, state |-> "connected", id |-> "port-id",
     manufacturer |-> "port-manufacturer", name |-> "port-name", type |-> "input"] :
    c \in {"open", "closed"} }

\* ------------------------------------------------------------------------
\* State
\* ------------------------------------------------------------------------

VARIABLES
  eventMap,     \* the port's own listener registry (EventEmitter.eventMap)
  channels,     \* channels[ch].eventMap: the registry of channel ch
  forwarders,   \* this._forwarders, in attachment order
  nListeners,   \* number of addListener calls so far; names the listeners
  call,         \* the call that has just run: its name and arguments
  ret,          \* what that call returned or threw
  log,          \* what that call emitted, processed and forwarded
  pending,      \* frames the transport has queued for onmidimessage
  running,      \* the activations of _onMidiMessage that have not returned
  _midiInput,   \* this._midiInput: whether it is held, and the handlers of
                \* the MIDIInput object (onstatechange, onmidimessage)
  awaiting,     \* the asynchronous call whose await has not resumed
  _octaveOffset, \* this._octaveOffset, a JavaScript value
  callerOptions \* the options object passed to the last subscription call:
                \* its content as the caller wrote it and as it is now, and
                \* whether the caller keeps it for the next call

vars == <<eventMap, channels, forwarders, nListeners, call, ret, log, pending, running,
          _midiInput, awaiting, _octaveOffset, callerOptions>>

\* ------------------------------------------------------------------------
\* Sequence helpers
\* ------------------------------------------------------------------------

Range(s) == { s[i] : i \in DOMAIN s }

\* ------------------------------------------------------------------------
\* EventEmitter (base class of Input and InputChannel)
\* ------------------------------------------------------------------------

\* new Listener(event, target, callback, options): context defaults to the
\* emitter itself, remaining to Infinity.
Listener(id, event, callback, options) ==
  [ id        |-> id,
    event     |-> event,
    callback  |-> callback,
    context   |-> IF Has(options, "context") THEN options.context ELSE "target",
    remaining |-> IF Has(options, "remaining") THEN options.remaining ELSE Infinity ]

\* EventEmitter.addListener: the listener is appended to the registry.
EmitterAddListener(map, id, event, callback, options) ==
  Append(map, Listener(id, event, callback, options))

\* EventEmitter.hasListener(event, callback): some listener of that event
\* name, with that callback when one is given.
EmitterHasListener(map, event, callback) ==
  \E i \in DOMAIN map :
    /\ map[i].event = event
    /\ callback # Undefined => map[i].callback = callback

\* A listener is removed when it matches every criterion that was supplied.
ListenerMatches(l, event, callback, options) ==
  /\ l.event = event
  /\ callback # Undefined => l.callback = callback
  /\ Has(options, "remaining") => l.remaining = options.remaining
  /\ Has(options, "context") => l.context = options.context

\* EventEmitter.removeListener(event, callback, options); without an event
\* name the whole registry is cleared.
EmitterRemoveListener(map, event, callback, options) ==
  IF event = Undefined THEN <<>>
  ELSE LET Keep(l) == ~ListenerMatches(l, event, callback, options)
       IN  SelectSeq(map, Keep)

\* The fields an event object carries besides its type: a record that holds
\* only the properties that were set on it.
NoPayload == [k \in {} |-> 0]

\* One log entry.
Entry(k, on, name, arg) ==
  [k |-> k, on |-> on, name |-> name, arg |-> arg, payload |-> NoPayload]

\* The emission of a log carries that event object.
Carrying(entries, payload) ==
  [i \in DOMAIN entries |->
     IF entries[i].k = "emit" THEN [entries[i] EXCEPT !.payload = payload]
     ELSE entries[i]]

\* EventEmitter.emit, the registry afterwards: every listener of the event
\* uses up one invocation and is removed when none remains.
EmitterAfterEmit(map, event) ==
  LET Used(l) == IF l.event = event /\ l.remaining # Infinity
                 THEN [l EXCEPT !.remaining = l.remaining - 1] ELSE l
      Alive(l) == l.event # event \/ l.remaining = Infinity \/ l.remaining > 1
  IN  [i \in DOMAIN SelectSeq(map, Alive) |-> Used(SelectSeq(map, Alive)[i])]

\* EventEmitter.emit, the trace: the emission, then one callback invocation
\* per listener of the event, in registration order.
EmitterEmitLog(map, on, event, arg) ==
  LET Mine(l) == l.event = event /\ (l.remaining = Infinity \/ l.remaining > 0)
      mine    == SelectSeq(map, Mine)
  IN  <<Entry("emit", on, event, arg)>>
        \o [i \in DOMAIN mine |-> Entry("invoke", on, event, mine[i].id)]

\* ------------------------------------------------------------------------
\* Message: the decoded form of one frame
\* ------------------------------------------------------------------------

\* Kind of a channel message, from the high nibble of the status byte.
ChannelMessageType(status) ==
  CASE status \div 16 = 8  -> "noteoff"
    [] status \div 16 = 9  -> "noteon"
    [] status \div 16 = 10 -> "keyaftertouch"
    [] status \div 16 = 11 -> "controlchange"
    [] status \div 16 = 12 -> "programchange"
    [] status \div 16 = 13 -> "channelaftertouch"
    [] status \div 16 = 14 -> "pitchbend"

\* Kind of a system message; a reserved status byte has no kind.
SystemMessageType(status) ==
  CASE status = 240 -> "sysex"
    [] status = 241 -> "timecode"
    [] status = 242 -> "songposition"
    [] status = 243 -> "songselect"
    [] status = 246 -> "tunerequest"
    [] status = 248 -> "clock"
    [] status = 250 -> "start"
    [] status = 251 -> "continue"
    [] status = 252 -> "stop"
    [] status = 254 -> "activesensing"
    [] status = 255 -> "reset"
    [] OTHER        -> Undefined

\* new Message(data)
Message(data) ==
  LET status  == data[1]
      channel == status >= 128 /\ status <= 239
  IN  [ data             |-> data,
        statusByte       |-> status,
        isChannelMessage |-> channel,
        isSystemMessage  |-> ~channel,
        channel          |-> IF channel THEN (status % 16) + 1 ELSE 0,
        type             |-> IF channel THEN ChannelMessageType(status)
                             ELSE SystemMessageType(status) ]

\* ------------------------------------------------------------------------
\* Utilities.sanitizeChannels
\* ------------------------------------------------------------------------

\* Every entry must be a channel number in 1..16, else the call throws.
sanitizeChannels(list) ==
  IF \A i \in DOMAIN list : list[i] \in 1..NumChannels
  THEN [threw |-> FALSE, channels |-> list]
  ELSE [threw |-> TRUE, channels |-> <<>>]

\* ------------------------------------------------------------------------
\* InputChannel
\* ------------------------------------------------------------------------

\* A half of a parameter number or of a value that has not been received.
Unset == 0 - 1

\* new InputChannel(input, number): an empty registry, no parameter being
\* assembled (ParamType None, ParamNumber Unset), no mode message received.
InputChannel(number) ==
  [ eventMap  |-> <<>>,
    paramType |-> "none",
    paramMsb  |-> Unset,
    paramLsb  |-> Unset,
    dataMsb   |-> Unset,
    omni      |-> "unset",
    mono      |-> "unset",
    local     |-> "unset" ]

\* No derived event.
NoEvents == <<>>

\* One derived event with that name and value.
Derived(name, value) == << [name |-> name, value |-> value] >>

\* A parameter is selected: the type is known and both halves of the
\* parameter number are set.
ParameterSelected(channel) ==
  channel.paramType # "none" /\ channel.paramMsb # Unset /\ channel.paramLsb # Unset

\* Names of the derived events of a parameter type.
ParameterEvents ==
  [ rpn  |-> [ selected |-> "rpn", coarse |-> "rpn-dataentrycoarse",
               fine |-> "rpn-dataentryfine",
               increment |-> "rpn-databuttonincrement",
               decrement |-> "rpn-databuttondecrement" ],
    nrpn |-> [ selected |-> "nrpn", coarse |-> "nrpn-dataentrycoarse",
               fine |-> "nrpn-dataentryfine",
               increment |-> "nrpn-databuttonincrement",
               decrement |-> "nrpn-databuttondecrement" ] ]

\* A channel-mode control change (control numbers 120..127): the named mode
\* event and the mode flag it sets; the parameter assembly is not involved.
ChannelMode(channel, number, value) ==
  CASE number = 120 -> [channel |-> channel, events |-> Derived("allsoundoff", value)]
    [] number = 121 -> [channel |-> channel, events |-> Derived("resetallcontrollers", value)]
    [] number = 122 -> [ channel |-> [channel EXCEPT !.local = IF value = 0 THEN "off" ELSE "on"],
                         events  |-> Derived("localcontrol", value) ]
    [] number = 123 -> [channel |-> channel, events |-> Derived("allnotesoff", value)]
    [] number = 124 -> [ channel |-> [channel EXCEPT !.omni = "off"],
                         events  |-> Derived("omnimode", value) ]
    [] number = 125 -> [ channel |-> [channel EXCEPT !.omni = "on"],
                         events  |-> Derived("omnimode", value) ]
    [] number = 126 -> [ channel |-> [channel EXCEPT !.mono = "mono"],
                         events  |-> Derived("monomode", value) ]
    [] OTHER        -> [ channel |-> [channel EXCEPT !.mono = "poly"],
                         events  |-> Derived("monomode", value) ]

\* The parameter-number MSB (control 101 for RPN, 99 for NRPN): the type is
\* set, the MSB recorded, the LSB and any value being assembled dropped.
SelectMsb(channel, type, value) ==
  [ channel |-> [channel EXCEPT !.paramType = type, !.paramMsb = value,
                                !.paramLsb = Unset, !.dataMsb = Unset],
    events  |-> NoEvents ]

\* The null parameter number (127, 127) taken for a parameter like any other.
SelectLsbNoNull(channel, type, value) ==
  IF channel.paramType = type /\ channel.paramMsb # Unset
  THEN [ channel |-> [channel EXCEPT !.paramLsb = value],
         events  |-> Derived(ParameterEvents[type].selected,
                             channel.paramMsb * 128 + value) ]
  ELSE [channel |-> channel, events |-> NoEvents]

\* The matching parameter-number LSB (control 100 for RPN, 98 for NRPN): the
\* LSB is recorded; the pair (127, 127) resets the assembly without an
\* event, any other pair gives one rpn / nrpn event with the composed
\* parameter number. An LSB that matches no MSB received has no effect.
SelectLsb(channel, type, value) ==
  IF channel.paramType = type /\ channel.paramMsb # Unset
  THEN IF channel.paramMsb = 127 /\ value = 127
       THEN [ channel |-> [channel EXCEPT !.paramType = "none", !.paramMsb = Unset,
                                          !.paramLsb = Unset, !.dataMsb = Unset],
              events  |-> NoEvents ]
       ELSE [ channel |-> [channel EXCEPT !.paramLsb = value],
              events  |-> Derived(ParameterEvents[type].selected,
                                  channel.paramMsb * 128 + value) ]
  ELSE [channel |-> channel, events |-> NoEvents]

\* The fine value taken from the LSB alone.
DataEntryLsbOnly(channel, number, value) ==
  IF ~ParameterSelected(channel) THEN [channel |-> channel, events |-> NoEvents]
  ELSE IF number = 6
  THEN [ channel |-> [channel EXCEPT !.dataMsb = value],
         events  |-> Derived(ParameterEvents[channel.paramType].coarse, value) ]
  ELSE IF channel.dataMsb # Unset
  THEN [ channel |-> channel,
         events  |-> Derived(ParameterEvents[channel.paramType].fine, value) ]
  ELSE [channel |-> channel, events |-> NoEvents]

\* Data entry (control 6 for the MSB, 38 for the LSB) while a parameter is
\* selected: the MSB is recorded and gives the coarse event; the LSB gives
\* the fine event with the composed value msb * 128 + lsb once the MSB is
\* there. Without a selected parameter there is no derived event.
DataEntry(channel, number, value) ==
  IF ~ParameterSelected(channel) THEN [channel |-> channel, events |-> NoEvents]
  ELSE IF number = 6
  THEN [ channel |-> [channel EXCEPT !.dataMsb = value],
         events  |-> Derived(ParameterEvents[channel.paramType].coarse, value) ]
  ELSE IF channel.dataMsb # Unset
  THEN [ channel |-> channel,
         events  |-> Derived(ParameterEvents[channel.paramType].fine,
                             channel.dataMsb * 128 + value) ]
  ELSE [channel |-> channel, events |-> NoEvents]

\* Data increment (control 96) and decrement (97) while a parameter is
\* selected: an event without a value.
DataButton(channel, number) ==
  IF ~ParameterSelected(channel) THEN [channel |-> channel, events |-> NoEvents]
  ELSE [ channel |-> channel,
         events  |-> Derived(IF number = 96
                             THEN ParameterEvents[channel.paramType].increment
                             ELSE ParameterEvents[channel.paramType].decrement,
                             Unset) ]

\* What a control change does beyond its literal events: the mode events
\* and flags, or a step of the parameter assembly, or nothing.
ControlChange(channel, number, value) ==
  CASE number >= 120        -> ChannelMode(channel, number, value)
    [] number = 101         -> SelectMsb(channel, "rpn", value)
    [] number = 99          -> SelectMsb(channel, "nrpn", value)
    [] number = 100         -> SelectLsb(channel, "rpn", value)
    [] number = 98          -> SelectLsb(channel, "nrpn", value)
    [] number \in {6, 38}   -> DataEntry(channel, number, value)
    [] number \in {96, 97}  -> DataButton(channel, number)
    [] OTHER                -> [channel |-> channel, events |-> NoEvents]

\* InputChannel._processMidiMessageEvent: the literal event of the message
\* kind is dispatched through the channel's registry, and for a control
\* change a second, number-qualified event, then the mode event or the
\* derived parameter event if there is one.
ProcessMidiMessageEvent(ch, channel, message) ==
  LET status == message.statusByte
      map1   == EmitterAfterEmit(channel.eventMap, message.type)
      named  == ControlChangeNames[message.data[2] + 1]
      isCC   == message.type = "controlchange"
      map2   == IF isCC THEN EmitterAfterEmit(map1, named) ELSE map1
      more   == IF isCC THEN ControlChange(channel, message.data[2], message.data[3])
                ELSE [channel |-> channel, events |-> NoEvents]
      map3   == IF more.events = NoEvents THEN map2
                ELSE EmitterAfterEmit(map2, more.events[1].name)
  IN  [ channel |-> [more.channel EXCEPT !.eventMap = map3],
        log     |-> <<Entry("process", ch, message.type, status)>>
                      \o EmitterEmitLog(channel.eventMap, ch, message.type, status)
                      \o (IF isCC THEN EmitterEmitLog(map1, ch, named, status)
                          ELSE <<>>)
                      \o (IF more.events = NoEvents THEN <<>>
                          ELSE Carrying(EmitterEmitLog(map2, ch, more.events[1].name, status),
                                        [value |-> more.events[1].value])) ]

\* ------------------------------------------------------------------------
\* Input
\* ------------------------------------------------------------------------

\* What a call returned: the shape of the value, the listener handles it
\* holds (listener id and channel, channel 0 being the port itself) and the
\* boolean it stands for; threw is TRUE when the call raised an error.
Ret(op, threw, shape, handles, flag) ==
  [op |-> op, threw |-> threw, shape |-> shape, handles |-> handles, flag |-> flag]

Returned(op, shape) == Ret(op, FALSE, shape, <<>>, FALSE)

\* No call has run since the caller last went on.
NoCall == [op |-> "none", args |-> <<>>]

\* The port is entered by one call at a time (JavaScript runs each call to
\* completion): the call runs when no other call's result is pending, no
\* handler is in progress and no frame waits for its handler.
Entering(op, args) ==
  /\ call = NoCall
  /\ pending = <<>>
  /\ running = <<>>
  /\ call' = [op |-> op, args |-> args]
  /\ UNCHANGED <<pending, running>>

\* A call that neither touches this._midiInput nor awaits, and takes no
\* options object.
Calling(op, args) ==
  /\ Entering(op, args)
  /\ UNCHANGED <<_midiInput, awaiting, _octaveOffset, callerOptions>>

\* The caller holds no options object.
NoObject == [asWritten |-> NoOptions, now |-> NoOptions, kept |-> FALSE, passedTo |-> {}]

\* The options parameter is a reference to the caller's object: what the
\* method writes into it is what the caller's object holds after the call.
\* An object the caller kept from an earlier call is still the object the
\* caller once wrote, and has been passed to the methods it was passed to;
\* any other is new.
Passed(op, options, after) ==
  callerOptions' = [ asWritten |-> IF callerOptions.kept THEN callerOptions.asWritten
                                   ELSE options,
                     now       |-> after,
                     kept      |-> FALSE,
                     passedTo  |-> IF callerOptions.kept
                                   THEN callerOptions.passedTo \cup {op}
                                   ELSE {op} ]

\* A subscription call: it takes an options object and leaves it as after.
CallingWith(op, args, after) ==
  /\ Entering(op, args)
  /\ UNCHANGED <<_midiInput, awaiting, _octaveOffset>>
  /\ Passed(op, args[3], after)

Threw(op) == Ret(op, TRUE, "Error", <<>>, FALSE)

\* No asynchronous call is suspended at an await.
NotAwaiting == [op |-> "none", asked |-> FALSE]

\* _parseEvent without the assignment of event.type: the copy keeps the type
\* "midimessage" of the event it was made from.
_parseEventKeepsType(map, message) ==
  [ eventMap |-> EmitterAfterEmit(map, "midimessage"),
    log      |-> <<Entry("parseEvent", 0, "midimessage", message.statusByte)>>
                   \o EmitterEmitLog(map, 0, "midimessage", message.statusByte) ]

\* The event object built by _onMidiMessage: event.data is message.data.
MidiMessageEvent(message) == [data |-> message.data]

\* _parseEvent without the fallback: the event's type is the message's kind,
\* even when the message has none.
_parseEventNoFallback(map, message) ==
  [ eventMap |-> EmitterAfterEmit(map, message.type),
    log      |-> <<Entry("parseEvent", 0, message.type, message.statusByte)>>
                   \o Carrying(EmitterEmitLog(map, 0, message.type, message.statusByte),
                               MidiMessageEvent(message)) ]

\* _parseEvent with event.song = e.data[1]: the song number is not made
\* 1-based.
_parseEventZeroBased(map, message) ==
  LET type  == IF message.type # Undefined THEN message.type
               ELSE "unknownmidimessage"
      event == (IF type = "songselect" THEN [song |-> message.data[2]] ELSE NoPayload)
                 @@ MidiMessageEvent(message)
  IN  [ eventMap |-> EmitterAfterEmit(map, type),
        log      |-> <<Entry("parseEvent", 0, type, message.statusByte)>>
                       \o Carrying(EmitterEmitLog(map, 0, type, message.statusByte), event) ]

\* _parseEvent: a copy of the event takes the message's kind as its type, or
\* "unknownmidimessage" when the message has none; a "songselect" event gets
\* the property song = e.data[1] + 1 (e.data[0] being the status byte); the
\* copy is emitted on the port.
_parseEvent(map, message) ==
  LET type  == IF message.type # Undefined THEN message.type
               ELSE "unknownmidimessage"
      event == (IF type = "songselect" THEN [song |-> message.data[2] + 1] ELSE NoPayload)
                 @@ MidiMessageEvent(message)
  IN  [ eventMap |-> EmitterAfterEmit(map, type),
        log      |-> <<Entry("parseEvent", 0, type, message.statusByte)>>
                       \o Carrying(EmitterEmitLog(map, 0, type, message.statusByte), event) ]

\* Routing in which the listeners one addListener call created on several
\* channels are one shared object: an invocation on the message's channel
\* uses up the count on every channel.
DispatchSharedCount(message, map, chans) ==
  IF message.isSystemMessage
  THEN LET r == _parseEvent(map, message)
       IN  [eventMap |-> r.eventMap, channels |-> chans, log |-> r.log]
  ELSE LET r == ProcessMidiMessageEvent(message.channel, chans[message.channel], message)
       IN  [ eventMap |-> map,
             channels |-> [ch \in DOMAIN chans |->
                             IF ch = message.channel THEN r.channel
                             ELSE [chans[ch] EXCEPT !.eventMap =
                                     EmitterAfterEmit(@, message.type)]],
             log      |-> r.log ]

\* Routing in which the parameter assembly is kept once for the port: what
\* a message does to it is seen by every channel.
DispatchSharedAssembly(message, map, chans) ==
  IF message.isSystemMessage
  THEN LET r == _parseEvent(map, message)
       IN  [eventMap |-> r.eventMap, channels |-> chans, log |-> r.log]
  ELSE LET r == ProcessMidiMessageEvent(message.channel, chans[message.channel], message)
       IN  [ eventMap |-> map,
             channels |-> [ch \in DOMAIN chans |->
                             [r.channel EXCEPT !.eventMap =
                                IF ch = message.channel THEN r.channel.eventMap
                                ELSE chans[ch].eventMap]],
             log      |-> r.log ]

\* Routing that tests the message's kind instead of its classification: a
\* message without a kind is handed to nobody.
DispatchSkipsUnknown(message, map, chans) ==
  IF message.type = Undefined
  THEN [eventMap |-> map, channels |-> chans, log |-> <<>>]
  ELSE IF message.isSystemMessage
  THEN [ eventMap |-> EmitterAfterEmit(map, message.type),
         channels |-> chans,
         log      |-> <<Entry("parseEvent", 0, message.type, message.statusByte)>>
                        \o EmitterEmitLog(map, 0, message.type, message.statusByte) ]
  ELSE LET r == ProcessMidiMessageEvent(message.channel, chans[message.channel], message)
       IN  [ eventMap |-> map,
             channels |-> [chans EXCEPT ![message.channel] = r.channel],
             log      |-> r.log ]

\* _onMidiMessage, routing: a system message is parsed by the port, a
\* channel message is processed by channels[message.channel].
Dispatch(message, map, chans) ==
  IF message.isSystemMessage
  THEN LET r == _parseEvent(map, message)
       IN  [eventMap |-> r.eventMap, channels |-> chans, log |-> r.log]
  ELSE IF message.isChannelMessage
  THEN LET r == ProcessMidiMessageEvent(message.channel, chans[message.channel], message)
       IN  [ eventMap |-> map,
             channels |-> [chans EXCEPT ![message.channel] = r.channel],
             log      |-> r.log ]
  ELSE [eventMap |-> map, channels |-> chans, log |-> <<>>]

\* Forwarding that walks the list from its end.
ForwardReversed(fws, message) ==
  [i \in DOMAIN fws |->
     Entry("forward", 0, fws[Len(fws) + 1 - i], message.statusByte)]

\* _onMidiMessage, forwarding: this._forwarders.forEach(f => f.forward(message))
Forward(fws, message) ==
  [i \in DOMAIN fws |-> Entry("forward", 0, fws[i], message.statusByte)]

\* _onMidiMessage(e): the transport delivered the frame e.data.
_onMidiMessage(data) ==
  /\ _midiInput.onmidimessage
  /\ Calling("_onMidiMessage", <<data>>)
  /\ LET message == Message(data)
         first   == Carrying(EmitterEmitLog(eventMap, 0, "midimessage", message.statusByte),
                             MidiMessageEvent(message))
         d       == Dispatch(message, EmitterAfterEmit(eventMap, "midimessage"), channels)
     IN  /\ eventMap' = d.eventMap
         /\ channels' = d.channels
         /\ log' = first \o d.log \o Forward(forwarders, message)
         /\ ret' = Returned("_onMidiMessage", "undefined")
         /\ UNCHANGED <<forwarders, nListeners>>

\* Every event name is taken for a channel-specific one.
EveryEventIsChannelSpecific(event) == TRUE

\* InputChannel.EVENTS.includes(event): the event family is looked up in the
\* fixed table, whatever the options.
IsChannelSpecific(event) == event \in InputChannel_EVENTS

\* event.target of a port-wide event: the Input itself, or a plain object
\* that copies the identity fields of the notification's port.
LiveTarget == [ref |-> "this"]

PortSnapshot(port) ==
  [ ref          |-> "copy",
    connection   |-> port.connection,
    id           |-> port.id,
    manufacturer |-> port.manufacturer,
    name         |-> port.name,
    state        |-> port.state,
    type         |-> port.type ]

\* No event at all.
NoEvent == [type |-> Undefined, target |-> LiveTarget, warn |-> FALSE]

\* Translation whose "closed" test ignores the hardware state: a port that
\* was unplugged is reported as closed.
StateChangeEventIgnoresState(port) ==
  IF port.connection = "open"
  THEN [type |-> "opened", target |-> LiveTarget, warn |-> FALSE]
  ELSE IF port.connection = "closed"
  THEN [type |-> "closed", target |-> LiveTarget, warn |-> FALSE]
  ELSE IF port.connection = "pending" /\ port.state = "disconnected"
  THEN NoEvent
  ELSE [NoEvent EXCEPT !.warn = TRUE]

\* Translation without the branch for pending + disconnected: that
\* combination falls through to the diagnostic.
StateChangeEventWarnsPending(port) ==
  IF port.connection = "open"
  THEN [type |-> "opened", target |-> LiveTarget, warn |-> FALSE]
  ELSE IF port.connection = "closed" /\ port.state = "connected"
  THEN [type |-> "closed", target |-> LiveTarget, warn |-> FALSE]
  ELSE IF port.connection = "closed" /\ port.state = "disconnected"
  THEN [type |-> "disconnected", target |-> PortSnapshot(port), warn |-> FALSE]
  ELSE [NoEvent EXCEPT !.warn = TRUE]

\* _onStateChange, the if / else-if chain: the event to emit, if any, and
\* whether console.warn is called.
StateChangeEvent(port) ==
  IF port.connection = "open"
  THEN [type |-> "opened", target |-> LiveTarget, warn |-> FALSE]
  ELSE IF port.connection = "closed" /\ port.state = "connected"
  THEN [type |-> "closed", target |-> LiveTarget, warn |-> FALSE]
  ELSE IF port.connection = "closed" /\ port.state = "disconnected"
  THEN [type |-> "disconnected", target |-> PortSnapshot(port), warn |-> FALSE]
  ELSE IF port.connection = "pending" /\ port.state = "disconnected"
  THEN NoEvent
  ELSE [NoEvent EXCEPT !.warn = TRUE]

\* _onStateChange(e): the transport reported a change of e.port.
_onStateChange(port) ==
  /\ _midiInput.onstatechange
  /\ Calling("_onStateChange", <<port>>)
  /\ LET event == StateChangeEvent(port)
     IN  /\ eventMap' = IF event.type = Undefined THEN eventMap
                        ELSE EmitterAfterEmit(eventMap, event.type)
         /\ log' = IF event.type # Undefined
                   THEN Carrying(EmitterEmitLog(eventMap, 0, event.type, 0),
                                 [target |-> event.target])
                   ELSE IF event.warn
                   THEN <<Entry("warn", 0, "This statechange event was not caught: ", 0)>>
                   ELSE <<>>
         /\ ret' = Returned("_onStateChange", "undefined")
         /\ UNCHANGED <<channels, forwarders, nListeners>>

\* No default: a call without options.channels reaches no channel.
DefaultChannelsNone(options) ==
  IF Has(options, "channels") THEN options.channels ELSE <<>>

\* options.channels, or all 16 channels when the caller left it out.
DefaultChannels(options) ==
  IF Has(options, "channels") THEN options.channels ELSE MIDI_CHANNEL_NUMBERS

\* Resolution that drops the entries that are no channel number instead of
\* rejecting the call.
ResolveChannelsLenient(options) ==
  LET IsChannel(ch) == ch \in 1..NumChannels
  IN  [threw |-> FALSE, channels |-> SelectSeq(DefaultChannels(options), IsChannel)]

\* Utilities.sanitizeChannels(options.channels) after the default was applied.
ResolveChannels(options) == sanitizeChannels(DefaultChannels(options))

\* Only the first channel of the list gets the listener.
AddToFirstChannel(chans, list, id, event, listener, options) ==
  IF list = <<>> THEN chans
  ELSE [chans EXCEPT ![Head(list)].eventMap =
          EmitterAddListener(@, id, event, listener, options)]

RECURSIVE AddToChannels(_, _, _, _, _, _)
\* list.forEach(ch => this.channels[ch].addListener(event, listener, options))
AddToChannels(chans, list, id, event, listener, options) ==
  IF list = <<>> THEN chans
  ELSE AddToChannels(
         [chans EXCEPT ![Head(list)].eventMap =
            EmitterAddListener(@, id, event, listener, options)],
         Tail(list), id, event, listener, options)

\* A variant of addListener that works on a copy of the options: the
\* caller's object stays as it was passed.
AddListenerOptionsOnCopy(event, options) == options

\* if (options.channels === undefined) options.channels = MIDI_CHANNEL_NUMBERS,
\* for a channel-specific event: the options object after addListener.
AddListenerOptions(event, options) ==
  IF IsChannelSpecific(event) /\ ~Has(options, "channels")
  THEN options @@ [channels |-> MIDI_CHANNEL_NUMBERS]
  ELSE options

\* The body of addListener(event, listener, options).
AddListenerBody(event, listener, options) ==
  /\ IF IsChannelSpecific(event)
     THEN LET resolved == ResolveChannels(options)
          IN  IF resolved.threw
              THEN /\ ret' = Threw("addListener")
                   /\ log' = <<>>
                   /\ UNCHANGED <<eventMap, channels, forwarders, nListeners>>
              ELSE /\ channels' = AddToChannels(channels, resolved.channels,
                                                nListeners + 1, event, listener, options)
                   /\ nListeners' = nListeners + 1
                   /\ ret' = Ret("addListener", FALSE, "array",
                                 [i \in DOMAIN resolved.channels |->
                                    <<nListeners + 1, resolved.channels[i]>>], FALSE)
                   /\ log' = <<>>
                   /\ UNCHANGED <<eventMap, forwarders>>
     ELSE /\ eventMap' = EmitterAddListener(eventMap, nListeners + 1, event, listener, options)
          /\ nListeners' = nListeners + 1
          /\ ret' = Ret("addListener", FALSE, "listener", <<<<nListeners + 1, 0>>>>, FALSE)
          /\ log' = <<>>
          /\ UNCHANGED <<channels, forwarders>>

\* addListener(event, listener, options)
addListener(event, listener, options) ==
  /\ CallingWith("addListener", <<event, listener, options>>,
                 AddListenerOptions(event, options))
  /\ AddListenerBody(event, listener, options)

\* options.remaining is set only when the caller left it out.
OneTimeOptionsKeepsCallers(options) == options @@ [remaining |-> 1]

\* options.remaining = 1, whatever the caller had put there.
OneTimeOptions(options) == [remaining |-> 1] @@ options

\* addOneTimeListener(event, listener, options)
addOneTimeListener(event, listener, options) ==
  /\ CallingWith("addOneTimeListener", <<event, listener, options>>,
                 AddListenerOptions(event, OneTimeOptions(options)))
  /\ AddListenerBody(event, listener, OneTimeOptions(options))

\* list.some(...) in place of list.every(...)
HasOnSomeChannel(chans, list, event, listener) ==
  \E i \in DOMAIN list : EmitterHasListener(chans[list[i]].eventMap, event, listener)

\* list.every(ch => this.channels[ch].hasListener(event, listener))
HasOnChannels(chans, list, event, listener) ==
  \A i \in DOMAIN list : EmitterHasListener(chans[list[i]].eventMap, event, listener)

\* hasListener that fills in a missing options.channels with all 16 channels,
\* as addListener does, in place of the validation error.
HasListenerOutcomeDefaulting(map, chans, event, listener, options) ==
  IF IsChannelSpecific(event)
  THEN LET resolved == ResolveChannels(options)
       IN  IF resolved.threw THEN Threw("hasListener")
           ELSE Ret("hasListener", FALSE, "boolean", <<>>,
                    HasOnChannels(chans, resolved.channels, event, listener))
  ELSE Ret("hasListener", FALSE, "boolean", <<>>,
           EmitterHasListener(map, event, listener))

\* What hasListener(event, listener, options) gives back: for a
\* channel-specific event without options.channels the validation throws;
\* otherwise the answer of every channel of the list, or of the port's own
\* registry for an input-wide event.
HasListenerOutcome(map, chans, event, listener, options) ==
  IF IsChannelSpecific(event)
  THEN IF ~Has(options, "channels") THEN Threw("hasListener")
       ELSE LET resolved == sanitizeChannels(options.channels)
            IN  IF resolved.threw THEN Threw("hasListener")
                ELSE Ret("hasListener", FALSE, "boolean", <<>>,
                         HasOnChannels(chans, resolved.channels, event, listener))
  ELSE Ret("hasListener", FALSE, "boolean", <<>>,
           EmitterHasListener(map, event, listener))

\* hasListener(event, listener, options)
hasListener(event, listener, options) ==
  /\ CallingWith("hasListener", <<event, listener, options>>, options)
  /\ ret' = HasListenerOutcome(eventMap, channels, event, listener, options)
  /\ log' = <<>>
  /\ UNCHANGED <<eventMap, channels, forwarders, nListeners>>

\* Removal that ignores the channel list and visits all 16 channels.
RemoveFromAllChannels(chans, list, event, listener, options) ==
  [ch \in DOMAIN chans |->
     [chans[ch] EXCEPT !.eventMap = EmitterRemoveListener(@, event, listener, options)]]

\* Removal that passes the event name and the callback to the channel but
\* not the options.
RemoveFromChannelsNoOptions(chans, list, event, listener, options) ==
  [ch \in DOMAIN chans |->
     IF ch \in Range(list)
     THEN [chans[ch] EXCEPT !.eventMap =
             EmitterRemoveListener(@, event, listener, NoOptions)]
     ELSE chans[ch]]

RECURSIVE RemoveFromChannels(_, _, _, _, _)
\* list.forEach(ch => this.channels[ch].removeListener(event, listener, options))
RemoveFromChannels(chans, list, event, listener, options) ==
  IF list = <<>> THEN chans
  ELSE RemoveFromChannels(
         [chans EXCEPT ![Head(list)].eventMap =
            EmitterRemoveListener(@, event, listener, options)],
         Tail(list), event, listener, options)

\* removeListener that handles the port's own registry only: a
\* channel-specific name reaches no channel.
RemoveListenerOutcomePortOnly(map, chans, event, listener, options) ==
  [ threw    |-> FALSE,
    eventMap |-> EmitterRemoveListener(map, event, listener, options),
    channels |-> chans ]

\* removeListener(event, listener, options), what it does to the registries:
\* whether it throws, and the port's and the channels' registries afterwards.
RemoveListenerOutcome(map, chans, event, listener, options) ==
  LET resolved == ResolveChannels(options)
      failed   == [threw |-> TRUE, eventMap |-> map, channels |-> chans]
  IN  IF event = Undefined
      THEN IF resolved.threw THEN failed
           ELSE [ threw    |-> FALSE,
                  eventMap |-> EmitterRemoveListener(map, Undefined, Undefined, NoOptions),
                  channels |-> RemoveFromChannels(chans, resolved.channels,
                                                  Undefined, Undefined, NoOptions) ]
      ELSE IF IsChannelSpecific(event)
      THEN IF resolved.threw THEN failed
           ELSE [ threw    |-> FALSE,
                  eventMap |-> map,
                  channels |-> RemoveFromChannels(chans, resolved.channels,
                                                  event, listener, options) ]
      ELSE [ threw    |-> FALSE,
             eventMap |-> EmitterRemoveListener(map, event, listener, options),
             channels |-> chans ]

\* if (options.channels === undefined) options.channels = MIDI_CHANNEL_NUMBERS,
\* whatever the event: the options object after removeListener.
RemoveListenerOptions(options) ==
  IF Has(options, "channels") THEN options
  ELSE options @@ [channels |-> MIDI_CHANNEL_NUMBERS]

\* removeListener(event, listener, options)
removeListener(event, listener, options) ==
  /\ CallingWith("removeListener", <<event, listener, options>>,
                 RemoveListenerOptions(options))
  /\ LET r == RemoveListenerOutcome(eventMap, channels, event, listener, options)
     IN  /\ eventMap' = r.eventMap
         /\ channels' = r.channels
         /\ ret' = IF r.threw THEN Threw("removeListener")
                   ELSE Returned("removeListener", "undefined")
         /\ log' = <<>>
         /\ UNCHANGED <<forwarders, nListeners>>

\* ------------------------------------------------------------------------
\* The receive path, step by step
\* ------------------------------------------------------------------------

\* Number of log entries of kind k.
Count(entries, k) == Cardinality({ i \in DOMAIN entries : entries[i].k = k })

\* The entry, marked with the ordinal of the message that caused it.
Tagged(entry, n) == [entry EXCEPT !.payload = [msg |-> n] @@ @]

TaggedAll(entries, n) == [i \in DOMAIN entries |-> Tagged(entries[i], n)]

\* The registry a log entry is about: the port's own (0) or a channel's.
RegistryOn(map, chans, on) == IF on = 0 THEN map ELSE chans[on].eventMap

\* EventEmitter.emit, the listeners it is going to invoke: those registered
\* for the event when the emission starts, in registration order.
Scheduled(map, event) == LET Mine(l) == l.event = event IN SelectSeq(map, Mine)

\* EventEmitter.emit, after the callback of one listener has run: that
\* listener uses up one invocation and is removed when none remains.
EmitterAfterInvoke(map, id) ==
  LET Used(l)  == IF l.id = id /\ l.remaining # Infinity
                  THEN [l EXCEPT !.remaining = l.remaining - 1] ELSE l
      Alive(l) == l.id # id \/ l.remaining = Infinity \/ l.remaining > 1
  IN  [i \in DOMAIN SelectSeq(map, Alive) |-> Used(SelectSeq(map, Alive)[i])]

\* The channels without their listeners.
Blank(chans) == [ch \in DOMAIN chans |-> [chans[ch] EXCEPT !.eventMap = <<>>]]

\* What _onMidiMessage does for a message, in order: the catch-all emission,
\* then the routing of the message (system dispatch or channel processing)
\* with the emissions it makes, which for a control change depend on the
\* channel's parameter assembly.
Plan(message, chans) ==
  Carrying(EmitterEmitLog(<<>>, 0, "midimessage", message.statusByte),
           MidiMessageEvent(message))
    \o Dispatch(message, <<>>, Blank(chans)).log

\* The channel after it has taken the message in: its assembly state and
\* mode flags are those the processing leaves, its registry is untouched
\* until the emissions run.
TakenIn(channel, message) ==
  [ProcessMidiMessageEvent(message.channel, channel, message).channel
     EXCEPT !.eventMap = channel.eventMap]

\* A handler that awaits: the transport's next task may start while an
\* activation has not returned.
AtAnyStep(activations) == TRUE

\* _onMidiMessage is a synchronous function (it never awaits), so the event
\* loop starts the transport's next task only when no activation is left.
AtTaskBoundary(activations) == activations = <<>>

\* The transport has a frame for the port: the task that will call
\* onmidimessage is queued, behind an activation that is still in progress
\* if there is one.
MidiMessageArrives(data) ==
  /\ _midiInput.onmidimessage
  /\ call.op \in {"none", "_onMidiMessage"}
  /\ Len(pending) + Count(log, "start") < MaxBurst
  /\ pending' = Append(pending, [data |-> data, waited |-> running # <<>>,
                                 attached |-> forwarders])
  /\ UNCHANGED <<eventMap, channels, forwarders, nListeners, call, ret, log, running, _midiInput, awaiting, _octaveOffset, callerOptions>>

\* _onMidiMessage(e) is entered with the oldest queued frame.
_onMidiMessageBegin ==
  /\ AtTaskBoundary(running)
  /\ pending # <<>>
  /\ LET data == Head(pending).data
         n    == Count(log, "start") + 1
     IN  /\ running' = Append(running, [ msg     |-> n,
                                         message |-> Message(data),
                                         plan    |-> Plan(Message(data), channels),
                                         sched   |-> <<>>,
                                         on      |-> 0,
                                         attached |-> Head(pending).attached ])
         /\ call' = [op |-> "_onMidiMessage", args |-> <<data>>]
         /\ log' = Append(log, Tagged([ Entry("start", 0, "_onMidiMessage", data[1])
                                          EXCEPT !.payload =
                                            [waited   |-> Head(pending).waited,
                                             attached |-> Head(pending).attached,
                                             data     |-> data] ], n))
  /\ pending' = Tail(pending)
  /\ ret' = Returned("none", "undefined")
  /\ UNCHANGED <<eventMap, channels, forwarders, nListeners, _midiInput, awaiting, _octaveOffset, callerOptions>>

\* The activation goes on to the next thing it has to do: an emission, whose
\* listeners are scheduled now, or the hand-over to the system dispatch or
\* to the channel.
_onMidiMessageStep(i) ==
  /\ running[i].sched = <<>>
  /\ running[i].plan # <<>>
  /\ LET r     == running[i]
         e     == Head(r.plan)
         sched == IF e.k = "emit"
                  THEN Scheduled(RegistryOn(eventMap, channels, e.on), e.name)
                  ELSE <<>>
         entry == IF e.k = "emit"
                  THEN [e EXCEPT !.payload =
                          [scheduled |-> [j \in DOMAIN sched |-> sched[j].id]] @@ @]
                  ELSE e
     IN  /\ running' = [running EXCEPT ![i] =
                          [r EXCEPT !.plan = Tail(r.plan), !.sched = sched, !.on = e.on]]
         /\ log' = Append(log, Tagged(entry, r.msg))
         /\ channels' = IF e.k = "process"
                        THEN [channels EXCEPT ![e.on] = TakenIn(@, r.message)]
                        ELSE channels
  /\ UNCHANGED <<eventMap, forwarders, nListeners, call, ret, pending, _midiInput, awaiting, _octaveOffset, callerOptions>>

\* The handles (listener id and registry) of the listeners a removeListener
\* call names: those that match its criteria in the registries of its scope.
NamedBy(map, chans, event, listener, options) ==
  LET scope == IF IsChannelSpecific(event)
               THEN Range(DefaultChannels(options)) \cap (1..NumChannels)
               ELSE {0}
      Named(on) == { x \in Range(RegistryOn(map, chans, on)) :
                       ListenerMatches(x, event, listener, options) }
  IN  UNION { { <<l.id, on>> : l \in Named(on) } : on \in scope }

\* The emission invokes the next listener it has scheduled: the callback
\* runs, and with it the call the callback makes on the port; then the
\* listener's count goes down.
ListenerInvoke(i) ==
  /\ running[i].sched # <<>>
  /\ LET r     == running[i]
         l     == Head(r.sched)
         c     == CallbackCall(l.callback)
         after == IF c.op = "removeListener"
                  THEN RemoveListenerOutcome(eventMap, channels,
                                             c.args[1], c.args[2], c.args[3])
                  ELSE [threw |-> FALSE, eventMap |-> eventMap, channels |-> channels]
         fc    == CallbackForwarderCall(l.callback)
         made  == IF c.op = "removeListener"
                  THEN << [ Entry("removeListener", r.on, c.args[1], l.id)
                              EXCEPT !.payload =
                                [named |-> NamedBy(eventMap, channels,
                                                   c.args[1], c.args[2], c.args[3])] ] >>
                  ELSE IF fc.op # "none" /\ CallbackForwarders(l.callback, forwarders) # forwarders
                  THEN << Entry(fc.op, r.on, fc.forwarder, l.id) >>
                  ELSE <<>>
     IN  /\ eventMap' = IF r.on = 0 THEN EmitterAfterInvoke(after.eventMap, l.id)
                        ELSE after.eventMap
         /\ channels' = IF r.on = 0 THEN after.channels
                        ELSE [after.channels EXCEPT ![r.on].eventMap =
                                EmitterAfterInvoke(@, l.id)]
         /\ log' = log \o TaggedAll(<<Entry("invoke", r.on, l.event, l.id)>> \o made, r.msg)
         /\ forwarders' = CallbackForwarders(l.callback, forwarders)
         /\ running' = [running EXCEPT ![i].sched = Tail(@)]
  /\ UNCHANGED <<nListeners, call, ret, pending, _midiInput, awaiting, _octaveOffset, callerOptions>>

\* Forwarding to the forwarders that were attached when the frame arrived.
ForwardTargetsAtArrival(current, atArrival) == atArrival

\* this._forwarders is read when the forwarding statement runs, after every
\* emission of the message has returned.
ForwardTargets(current, atArrival) == current

\* The activation has nothing left to emit: the message is passed to the
\* forwarders and _onMidiMessage returns.
_onMidiMessageReturn(i) ==
  /\ running[i].sched = <<>>
  /\ running[i].plan = <<>>
  /\ LET r == running[i]
     IN  log' = log \o TaggedAll(Forward(ForwardTargets(forwarders, r.attached), r.message)
                                  \o <<Entry("return", 0, "_onMidiMessage",
                                              r.message.statusByte)>>, r.msg)
  /\ running' = [j \in 1..(Len(running) - 1) |->
                   IF j < i THEN running[j] ELSE running[j + 1]]
  /\ ret' = Returned("_onMidiMessage", "undefined")
  /\ UNCHANGED <<eventMap, channels, forwarders, nListeners, call, pending, _midiInput, awaiting, _octaveOffset, callerOptions>>

\* addForwarder(output): the forwarder is pushed onto the list and returned.
addForwarder(forwarder) ==
  /\ Calling("addForwarder", <<forwarder>>)
  /\ forwarders' = Append(forwarders, forwarder)
  /\ ret' = Returned("addForwarder", "forwarder")
  /\ log' = <<>>
  /\ UNCHANGED <<eventMap, channels, nListeners>>

\* A removal that stops at the first occurrence of the forwarder.
DetachFirst(fws, forwarder) ==
  IF forwarder \notin Range(fws) THEN fws
  ELSE LET first == CHOOSE i \in DOMAIN fws :
                      fws[i] = forwarder /\ \A j \in 1..(i - 1) : fws[j] # forwarder
       IN  [j \in 1..(Len(fws) - 1) |-> IF j < first THEN fws[j] ELSE fws[j + 1]]

\* this._forwarders.filter(item => item !== forwarder)
Detach(fws, forwarder) ==
  LET Other(item) == item # forwarder IN SelectSeq(fws, Other)

\* The list entries a removal dropped, as log entries naming the forwarder
\* and the position it held.
Detached(before, after, forwarder) ==
  LET Dropped(i) == before[i] = forwarder /\ forwarder \notin Range(after)
      RECURSIVE Upto(_)
      Upto(i) == IF i = 0 THEN <<>>
                 ELSE Upto(i - 1) \o (IF Dropped(i)
                                      THEN <<Entry("detach", 0, forwarder, i)>>
                                      ELSE <<>>)
  IN  Upto(Len(before))

\* removeForwarder(forwarder): every occurrence is filtered out.
removeForwarder(forwarder) ==
  /\ Calling("removeForwarder", <<forwarder>>)
  /\ forwarders' = Detach(forwarders, forwarder)
  /\ ret' = Returned("removeForwarder", "undefined")
  /\ log' = Detached(forwarders, forwarders', forwarder)
  /\ UNCHANGED <<eventMap, channels, nListeners>>

\* hasForwarder(forwarder)
hasForwarder(forwarder) ==
  /\ Calling("hasForwarder", <<forwarder>>)
  /\ ret' = Ret("hasForwarder", FALSE, "boolean", <<>>, forwarder \in Range(forwarders))
  /\ log' = <<>>
  /\ UNCHANGED <<eventMap, channels, forwarders, nListeners>>

\* ------------------------------------------------------------------------
\* open, close, destroy
\* ------------------------------------------------------------------------

\* The promise of an asynchronous call: pending at first, then fulfilled or
\* rejected (threw is TRUE for a rejection).
Pending(op) == Ret(op, FALSE, "pending", <<>>, FALSE)

Fulfilled(op) == Ret(op, FALSE, "fulfilled", <<>>, FALSE)

Rejected(op) == Ret(op, TRUE, "rejected", <<>>, FALSE)

\* The call reached the transport: this._midiInput.open() or .close().
Asked(what) == <<Entry("transport", 0, what, Undefined)>>

\* The promise of the call was settled with that value or error.
Settle(how, value) == <<Entry("settle", 0, how, value)>>

\* open(): awaits this._midiInput.open(). On a port that holds no MIDIInput
\* the member access throws a TypeError inside the try block, which the
\* catch turns into a rejection.
open ==
  /\ Entering("open", <<>>)
  /\ IF _midiInput.held
     THEN /\ awaiting' = [op |-> "open", asked |-> TRUE]
          /\ log' = Asked("open")
          /\ ret' = Pending("open")
     ELSE /\ awaiting' = NotAwaiting
          /\ log' = Settle("rejected", "TypeError")
          /\ ret' = Rejected("open")
  /\ UNCHANGED <<eventMap, channels, forwarders, nListeners, _midiInput, _octaveOffset, callerOptions>>

\* close(): fulfilled with the port at once when no MIDIInput is held, else
\* awaits this._midiInput.close().
close ==
  /\ Entering("close", <<>>)
  /\ IF _midiInput.held
     THEN /\ awaiting' = [op |-> "close", asked |-> TRUE]
          /\ log' = Asked("close")
          /\ ret' = Pending("close")
     ELSE /\ awaiting' = NotAwaiting
          /\ log' = Settle("fulfilled", "this")
          /\ ret' = Fulfilled("close")
  /\ UNCHANGED <<eventMap, channels, forwarders, nListeners, _midiInput, _octaveOffset, callerOptions>>

\* this.removeListener() as destroy calls it: the registries of the channels
\* the port still has, and the port's own.
RemoveEverything(map, chans) ==
  IF chans = <<>>
  THEN [ threw    |-> FALSE,
         eventMap |-> EmitterRemoveListener(map, Undefined, Undefined, NoOptions),
         channels |-> chans ]
  ELSE RemoveListenerOutcome(map, chans, Undefined, Undefined, NoOptions)

\* ch.destroy() for every channel of the list, as log entries that tell how
\* many listeners the channel's registry held when it was destroyed.
ChannelsDestroyed(chans) ==
  [ch \in DOMAIN chans |-> Entry("destroy", ch, "InputChannel", Len(chans[ch].eventMap))]

\* A destroy that leaves the forwarders attached.
DestroyedKeepsForwarders(map, chans, fws, midiInput) ==
  [ eventMap   |-> RemoveEverything(map, chans).eventMap,
    channels   |-> <<>>,
    forwarders |-> fws,
    midiInput  |-> IF midiInput.held
                   THEN [midiInput EXCEPT !.onstatechange = FALSE, !.onmidimessage = FALSE]
                   ELSE midiInput ]

\* A destroy that unlinks the handlers only after close() has succeeded.
DestroyedKeepsHandlers(map, chans, fws, midiInput) ==
  [ eventMap   |-> RemoveEverything(map, chans).eventMap,
    channels   |-> <<>>,
    forwarders |-> <<>>,
    midiInput  |-> midiInput ]

\* destroy() up to its await: the listeners are removed, the channels
\* destroyed and the list emptied, the forwarders dropped and, when a
\* MIDIInput is held, its two handlers set to null.
Destroyed(map, chans, fws, midiInput) ==
  [ eventMap   |-> RemoveEverything(map, chans).eventMap,
    channels   |-> <<>>,
    forwarders |-> <<>>,
    midiInput  |-> IF midiInput.held
                   THEN [midiInput EXCEPT !.onstatechange = FALSE, !.onmidimessage = FALSE]
                   ELSE midiInput ]

\* destroy(): the synchronous part, then await this.close(), which reaches
\* the transport only when a MIDIInput is held.
destroy ==
  /\ Entering("destroy", <<>>)
  /\ LET d == Destroyed(eventMap, channels, forwarders, _midiInput)
     IN  /\ eventMap' = d.eventMap
         /\ channels' = d.channels
         /\ forwarders' = d.forwarders
         /\ _midiInput' = d.midiInput
  /\ awaiting' = [op |-> "destroy", asked |-> _midiInput.held]
  /\ log' = ChannelsDestroyed(RemoveEverything(eventMap, channels).channels)
               \o (IF _midiInput.held THEN Asked("close") ELSE <<>>)
  /\ ret' = Pending("destroy")
  /\ UNCHANGED <<nListeners, _octaveOffset, callerOptions>>

\* destroy() that clears this._midiInput whatever close() answered.
AfterAwaitAlwaysClears(op, outcome, midiInput) == [midiInput EXCEPT !.held = op # "destroy"]

\* this._midiInput after the await has resumed: destroy() sets it to null
\* when close() was fulfilled; a rejection leaves destroy() before that
\* statement. open() and close() do not assign it.
AfterAwait(op, outcome, midiInput) ==
  IF op = "destroy" /\ outcome.ok THEN [midiInput EXCEPT !.held = FALSE] ELSE midiInput

\* A rejection that is swallowed: the promise is fulfilled all the same.
SettledAlwaysFulfilled(op, outcome) == Fulfilled(op)

\* The promise of the call once the transport has answered.
Settled(op, outcome) == IF outcome.ok THEN Fulfilled(op) ELSE Rejected(op)

\* The value the promise is settled with: the transport's error, or the
\* port itself for open() and close(), or nothing for destroy().
SettledWith(op, outcome) ==
  IF ~outcome.ok THEN outcome.err
  ELSE IF op = "destroy" THEN Undefined ELSE "this"

\* The transport answers the call that is awaiting it (a close() that did
\* not reach the transport resumes fulfilled), and the call runs to its end.
Settles(outcome) ==
  /\ awaiting.op # "none"
  /\ awaiting.asked \/ outcome.ok
  /\ ret' = Settled(awaiting.op, outcome)
  /\ log' = log \o (IF awaiting.asked
                     THEN <<Entry("transport", 0,
                                  IF outcome.ok THEN "accepts" ELSE "rejects", outcome.err)>>
                     ELSE <<>>)
                 \o Settle(ret'.shape, SettledWith(awaiting.op, outcome))
  /\ _midiInput' = AfterAwait(awaiting.op, outcome, _midiInput)
  /\ awaiting' = NotAwaiting
  /\ UNCHANGED <<eventMap, channels, forwarders, nListeners, call, pending, running,
                 _octaveOffset, callerOptions>>

\* The MIDIInput has something to report and its handler is null: nothing
\* of the port runs.
Unheard(op, args) ==
  /\ Calling(op, args)
  /\ ret' = Returned(op, "undefined")
  /\ log' = <<>>
  /\ UNCHANGED <<eventMap, channels, forwarders, nListeners>>

\* The MIDIInput received a frame: it calls its onmidimessage handler, which
\* is the port's _onMidiMessage unless it was set to null.
onmidimessage(data) ==
  IF _midiInput.onmidimessage THEN _onMidiMessage(data)
  ELSE Unheard("onmidimessage", <<data>>)

\* The MIDIInput changed state: it calls its onstatechange handler.
onstatechange(port) ==
  IF _midiInput.onstatechange THEN _onStateChange(port)
  ELSE Unheard("onstatechange", <<port>>)

\* ------------------------------------------------------------------------
\* octaveOffset
\* ------------------------------------------------------------------------

\* The value NaN.
NaN == [t |-> "NaN"]

\* parseInt(value): a number is cut to its integer part, a string gives the
\* integer it starts with, or NaN when it starts with none.
parseInt(value) ==
  IF value.t = "number"
  THEN IF value.tenths >= 0 THEN Number(value.tenths \div 10)
       ELSE Number(0 - ((0 - value.tenths) \div 10))
  ELSE IF value.s = "2" THEN Number(2) ELSE NaN

\* this.validation as the setter reads it: Input defines no field and no
\* accessor of that name (the flag the other methods test is
\* WebMidi.validation), so the read gives undefined.
ThisValidation == Undefined

\* The condition of an if statement holds for the value.
Truthy(value) == value # Undefined

\* set octaveOffset(value), what it stores and whether it throws: the value
\* is parsed and checked only when this.validation is truthy.
OctaveOffsetSet(validation, stored, value) ==
  IF Truthy(validation)
  THEN IF parseInt(value) = NaN
       THEN [threw |-> TRUE, stored |-> stored]
       ELSE [threw |-> FALSE, stored |-> parseInt(value)]
  ELSE [threw |-> FALSE, stored |-> value]

\* input.octaveOffset = value
SetOctaveOffset(value) ==
  /\ Entering("set octaveOffset", <<value>>)
  /\ LET r == OctaveOffsetSet(ThisValidation, _octaveOffset, value)
     IN  /\ _octaveOffset' = r.stored
         /\ ret' = IF r.threw THEN Ret("set octaveOffset", TRUE, "TypeError", <<>>, FALSE)
                   ELSE Returned("set octaveOffset", "undefined")
  /\ log' = <<>>
  /\ UNCHANGED <<eventMap, channels, forwarders, nListeners, _midiInput, awaiting, callerOptions>>

\* ------------------------------------------------------------------------
\* Specification
\* ------------------------------------------------------------------------

\* The port after construction: 16 channels, no listener, no forwarder, the
\* MIDIInput held and its two handlers bound to the port.
Init ==
  /\ eventMap = <<>>
  /\ channels = [ch \in 1..NumChannels |-> InputChannel(ch)]
  /\ forwarders = <<>>
  /\ nListeners = 0
  /\ call = NoCall
  /\ ret = Returned("none", "undefined")
  /\ log = <<>>
  /\ pending = <<>>
  /\ running = <<>>
  /\ _midiInput = [held |-> TRUE, onstatechange |-> TRUE, onmidimessage |-> TRUE]
  /\ awaiting = NotAwaiting
  /\ _octaveOffset = Number(0)
  /\ callerOptions = NoObject

\* The caller has taken the result of the call and goes on.
Continue ==
  /\ call # NoCall
  /\ awaiting = NotAwaiting
  /\ pending = <<>>
  /\ running = <<>>
  /\ call' = NoCall
  /\ ret' = Returned("none", "undefined")
  /\ log' = <<>>
  /\ callerOptions' = NoObject
  /\ UNCHANGED <<eventMap, channels, forwarders, nListeners, pending, running, _midiInput, awaiting, _octaveOffset>>

\* The methods that take an options object.
SubscriptionOps == {"addListener", "addOneTimeListener", "hasListener", "removeListener"}

\* The caller goes on and keeps the options object of its last subscription
\* call, to pass the same object to the next one.
ContinueKeeping ==
  /\ call # NoCall
  /\ awaiting = NotAwaiting
  /\ pending = <<>>
  /\ running = <<>>
  /\ call.op \in SubscriptionOps \/ callerOptions.kept
  /\ call' = NoCall
  /\ ret' = Returned("none", "undefined")
  /\ log' = <<>>
  /\ callerOptions' = [callerOptions EXCEPT !.kept = TRUE]
  /\ UNCHANGED <<eventMap, channels, forwarders, nListeners, pending, running, _midiInput, awaiting, _octaveOffset>>

\* The options objects the caller can pass: the one it kept, or else one it
\* writes for this call.
Offered == IF callerOptions.kept THEN {callerOptions.now} ELSE OptionsWritten

\* Calls and transport notifications of a port in use: listeners and
\* forwarders come and go while messages are received.
Next ==
  \/ \E c \in TrafficAddCalls : nListeners < MaxAdds /\ addListener(c[1], c[2], c[3])
  \/ \E c \in TrafficRemoveCalls : removeListener(c[1], c[2], c[3])
  \/ \E f \in Forwarders : Len(forwarders) < MaxForwarders /\ addForwarder(f)
  \/ \E f \in Forwarders : removeForwarder(f)
  \/ \E f \in Forwarders : hasForwarder(f)
  \/ \E data \in Frames : _onMidiMessage(data)
  \/ Continue

Spec == Init /\ [][Next]_vars

\* The subscription API alone.
NextListeners ==
  \/ \E c \in AddCalls : nListeners < MaxAdds /\ addListener(c[1], c[2], c[3])
  \/ \E c \in HasCalls : hasListener(c[1], c[2], c[3])
  \/ \E c \in RemoveCalls : removeListener(c[1], c[2], c[3])
  \/ Continue

SpecListeners == Init /\ [][NextListeners]_vars

\* Messages reaching listeners that are good for a number of invocations.
NextCounted ==
  \/ \E c \in CountedAddCalls : nListeners < MaxAdds /\ addListener(c[1], c[2], c[3])
  \/ \E c \in OneTimeCalls : nListeners < MaxAdds /\ addOneTimeListener(c[1], c[2], c[3])
  \/ \E c \in CountedRemoveCalls : removeListener(c[1], c[2], c[3])
  \/ \E data \in CountedFrames : _onMidiMessage(data)
  \/ Continue

SpecCounted == Init /\ [][NextCounted]_vars

\* Bursts of messages handled step by step, with callbacks that unsubscribe
\* listeners while the message is being handled.
NextLoop ==
  \/ \E c \in LoopAddCalls : nListeners < MaxAdds /\ addListener(c[1], c[2], c[3])
  \/ forwarders = <<>> /\ addForwarder("fwA")
  \/ \E data \in LoopFrames : MidiMessageArrives(data)
  \/ _onMidiMessageBegin
  \/ \E i \in DOMAIN running : _onMidiMessageStep(i)
  \/ \E i \in DOMAIN running : ListenerInvoke(i)
  \/ \E i \in DOMAIN running : _onMidiMessageReturn(i)
  \/ Continue

SpecLoop == Init /\ [][NextLoop]_vars

\* Bursts of messages handled step by step, with callbacks that attach and
\* remove forwarders while the message is being handled.
NextThru ==
  \/ \E c \in ThruAddCalls : nListeners < MaxAdds /\ addListener(c[1], c[2], c[3])
  \/ forwarders = <<>> /\ addForwarder("fwA")
  \/ removeForwarder("fwB")
  \/ \E data \in LoopFrames : MidiMessageArrives(data)
  \/ _onMidiMessageBegin
  \/ \E i \in DOMAIN running : _onMidiMessageStep(i)
  \/ \E i \in DOMAIN running : ListenerInvoke(i)
  \/ \E i \in DOMAIN running : _onMidiMessageReturn(i)
  \/ Continue

SpecThru == Init /\ [][NextThru]_vars

\* The transport's notifications (messages and state changes) reaching a
\* port that holds a few listeners and forwarders.
NextTransport ==
  \/ \E c \in TransportAddCalls : nListeners < MaxAdds /\ addListener(c[1], c[2], c[3])
  \/ \E f \in Forwarders : forwarders = <<>> /\ addForwarder(f)
  \/ \E data \in TransportFrames : _onMidiMessage(data)
  \/ \E port \in PortStates : _onStateChange(port)
  \/ Continue

SpecTransport == Init /\ [][NextTransport]_vars

\* The life of a port: listeners and forwarders are attached, the port is
\* opened, closed and destroyed while the transport answers and notifies.
\* (On a destroyed port, a call that reaches this.channels[ch] throws a
\* TypeError; those calls are left out.)
NextLifecycle ==
  \/ \E c \in LifecycleAddCalls :
       /\ nListeners < MaxAdds
       /\ channels # <<>> \/ ~IsChannelSpecific(c[1])
       /\ addListener(c[1], c[2], c[3])
  \/ channels # <<>> /\ removeListener("noteon", Undefined, NoOptions)
  \/ Len(forwarders) < MaxForwarders /\ addForwarder("fwA")
  \/ open
  \/ close
  \/ destroy
  \/ \E outcome \in TransportOutcomes : Settles(outcome)
  \/ \E data \in LifecycleFrames : onmidimessage(data)
  \/ \E port \in LifecyclePorts : onstatechange(port)
  \/ \E value \in OffsetValues : SetOctaveOffset(value)
  \/ Continue

SpecLifecycle == Init /\ [][NextLifecycle]_vars

\* Control changes and notes on two channels that hold listeners.
NextChannels ==
  \/ \E c \in ChannelAddCalls : nListeners < MaxAdds /\ addListener(c[1], c[2], c[3])
  \/ \E data \in ChannelFrames : _onMidiMessage(data)
  \/ Continue

SpecChannels == Init /\ [][NextChannels]_vars

\* The transport has the next frame of the parameter sequence for the port,
\* the frames before it having been handled.
ParameterFrameArrives ==
  /\ _midiInput.onmidimessage
  /\ pending = <<>>
  /\ running = <<>>
  /\ LET n     == Count(log, "start") + 1
         first == IF n = 1 THEN <<>> ELSE log[1].payload.data
     IN  \E data \in ParameterFrames(n, first) :
           pending' = <<[data |-> data, waited |-> FALSE, attached |-> forwarders]>>
  /\ UNCHANGED <<eventMap, channels, forwarders, nListeners, call, ret, log, running,
                 _midiInput, awaiting, _octaveOffset, callerOptions>>

\* A parameter selection followed by a data entry on a port just
\* constructed, frame by frame.
NextParameter ==
  \/ ParameterFrameArrives
  \/ _onMidiMessageBegin
  \/ \E i \in DOMAIN running : _onMidiMessageStep(i)
  \/ \E i \in DOMAIN running : _onMidiMessageReturn(i)

SpecParameter == Init /\ [][NextParameter]_vars

\* The transport has the next frame of the sequence with the null parameter
\* number for the port, the frames before it having been handled.
NullFrameArrives ==
  /\ _midiInput.onmidimessage
  /\ pending = <<>>
  /\ running = <<>>
  /\ LET n        == Count(log, "start") + 1
         previous == IF n = 1 THEN <<>> ELSE call.args[1]
     IN  \E data \in NullFrames(n, previous) :
           pending' = <<[data |-> data, waited |-> FALSE, attached |-> forwarders]>>
  /\ UNCHANGED <<eventMap, channels, forwarders, nListeners, call, ret, log, running,
                 _midiInput, awaiting, _octaveOffset, callerOptions>>

\* A selection, the null parameter number and the control changes after
\* it on a port just constructed, frame by frame.
NextNull ==
  \/ NullFrameArrives
  \/ _onMidiMessageBegin
  \/ \E i \in DOMAIN running : _onMidiMessageStep(i)
  \/ \E i \in DOMAIN running : _onMidiMessageReturn(i)

SpecNull == Init /\ [][NextNull]_vars

\* A caller that passes one options object to several subscription calls,
\* while messages are received.
NextOptions ==
  \/ \E e \in SharedEvents : \E o \in Offered :
       nListeners < MaxAdds /\ addOneTimeListener(e, "f", o)
  \/ \E e \in SharedEvents : \E o \in Offered :
       nListeners < MaxAdds /\ addListener(e, "f", o)
  \/ \E e \in SharedEvents : \E o \in Offered : hasListener(e, "f", o)
  \/ \E e \in SharedEvents \cup {Undefined} : \E o \in Offered :
       removeListener(e, IF e = Undefined THEN Undefined ELSE "f", o)
  \/ \E data \in SharedFrames : _onMidiMessage(data)
  \/ Continue
  \/ ContinueKeeping

SpecOptions == Init /\ [][NextOptions]_vars

\* The forwarder API while messages are received.
NextForwarders ==
  \/ \E f \in ForwarderHandles : Len(forwarders) < MaxAttached /\ addForwarder(f)
  \/ \E f \in ForwarderHandles : removeForwarder(f)
  \/ \E f \in ForwarderHandles : hasForwarder(f)
  \/ \E data \in ForwarderFrames : _onMidiMessage(data)
  \/ Continue

SpecForwarders == Init /\ [][NextForwarders]_vars

\* ------------------------------------------------------------------------
\* Properties of the receive path
\* ------------------------------------------------------------------------

\* The most recent call was the delivery of a message.
MessageHandled == call.op = "_onMidiMessage"

\* Status byte of the message whose handling the log describes.
LoggedStatus == log[1].arg

\* Positions of the log entries of kind k.
EntriesOf(k) == { i \in DOMAIN log : log[i].k = k }

\* A status byte that is neither a channel status nor a defined system status.
Unrecognized(status) ==
  /\ status \notin 128..239
  /\ status \notin {240, 241, 242, 243, 246, 248, 250, 251, 252, 254, 255}

\* C1: every received message is handled either by the port's system
\* dispatcher or by exactly one channel, never by both and never by neither;
\* a message with an unrecognized status byte goes to the system dispatcher.
C1_ExactlyOneRoute ==
  MessageHandled =>
    /\ Cardinality(EntriesOf("parseEvent")) + Cardinality(EntriesOf("process")) = 1
    /\ Unrecognized(LoggedStatus) => Cardinality(EntriesOf("parseEvent")) = 1

\* A message with the reserved status byte 0xF4 was handled by the system
\* dispatcher.
C1_Witness ==
  /\ MessageHandled
  /\ LoggedStatus = 244
  /\ EntriesOf("parseEvent") # {}
  /\ EntriesOf("process") = {}

\* Positions of the emissions of "midimessage".
CatchAllEmissions ==
  { i \in DOMAIN log : log[i].k = "emit" /\ log[i].name = "midimessage" }

\* Positions of what must come after the catch-all emission: kind-specific
\* emissions, system dispatch, channel processing and forwarding.
AfterCatchAll ==
  { i \in DOMAIN log :
      \/ log[i].k \in {"parseEvent", "process", "forward"}
      \/ log[i].k = "emit" /\ log[i].name # "midimessage" }

\* C2: for every received message the port emits exactly one "midimessage"
\* event, before any kind-specific event, before the channel processes the
\* message and before any forwarder receives it.
C2_CatchAllFirst ==
  MessageHandled =>
    /\ Cardinality(CatchAllEmissions) = 1
    /\ \A i \in CatchAllEmissions : \A j \in AfterCatchAll : i < j

\* A system message was handled while a "midimessage" listener was
\* registered and a forwarder attached: catch-all emission, listener
\* invocation, system dispatch and forwarding all appear in the log.
C2_Witness ==
  /\ MessageHandled
  /\ \E i \in DOMAIN log : log[i].k = "invoke" /\ log[i].name = "midimessage"
  /\ EntriesOf("parseEvent") # {}
  /\ EntriesOf("forward") # {}

\* The forwarders that received the message, in the order they received it.
Forwarded ==
  LET IsForward(e) == e.k = "forward"
      fw == SelectSeq(log, IsForward)
  IN  [i \in DOMAIN fw |-> fw[i].name]

\* Forwarding comes last: no other entry follows a forward entry.
ForwardingLast ==
  \A i \in EntriesOf("forward") : \A j \in DOMAIN log : j > i => log[j].k = "forward"

\* C3 as stated: after dispatch, each attached forwarder receives the message
\* exactly once, in attachment order.
C3_OncePerForwarder ==
  MessageHandled =>
    /\ ForwardingLast
    /\ \A f \in Range(forwarders) :
         Cardinality({ i \in DOMAIN Forwarded : Forwarded[i] = f }) = 1

\* C3 (amended): after the port/channel dispatch of each received message,
\* the message is passed once per attachment, in attachment order: the
\* sequence of forwarders that receive it is the forwarder list itself, so a
\* forwarder attached twice receives it twice; this holds for system and for
\* channel messages, whether or not a listener was invoked.
C3_OncePerAttachment ==
  MessageHandled => ForwardingLast /\ Forwarded = forwarders

\* A channel message for which no listener was invoked was passed to two
\* different forwarders, the one attached first receiving it first.
C3_Witness ==
  /\ MessageHandled
  /\ forwarders = <<"fwB", "fwA">>
  /\ Forwarded = <<"fwB", "fwA">>
  /\ EntriesOf("process") # {}
  /\ EntriesOf("invoke") = {}

\* ------------------------------------------------------------------------
\* Properties of the subscription API
\* ------------------------------------------------------------------------

\* The step is a call of op; event, listener and options are its arguments.
Calls(op) == call'.op = op

argEvent == call'.args[1]

argListener == call'.args[2]

argOptions == call'.args[3]

\* The list holds channel numbers only.
AllChannelNumbers(list) == \A i \in DOMAIN list : list[i] \in 1..NumChannels

\* The registries of the channels.
Registry(chans, ch) == chans[ch].eventMap

\* The step adds one listener of that event and callback, named id, at the
\* end of the registry of every channel of the set, changes no other
\* registry, and returns one handle per channel of the set.
FansOutTo(set, e, l) ==
  LET id == nListeners + 1
  IN  /\ \A ch \in set :
           /\ Len(Registry(channels', ch)) = Len(Registry(channels, ch)) + 1
           /\ SubSeq(Registry(channels', ch), 1, Len(Registry(channels, ch)))
                = Registry(channels, ch)
           /\ LET added == Registry(channels', ch)[Len(Registry(channels', ch))]
              IN  added.id = id /\ added.event = e /\ added.callback = l
      /\ \A ch \in (1..NumChannels) \ set : channels'[ch] = channels[ch]
      /\ eventMap' = eventMap
      /\ ~ret'.threw
      /\ ret'.shape = "array"
      /\ Len(ret'.handles) = Cardinality(set)
      /\ Range(ret'.handles) = { <<id, ch>> : ch \in set }

\* C4: addListener for a channel-scoped event name with options.channels = S
\* (distinct channel numbers in 1..16) adds exactly one listener to the
\* registry of each channel of S, none to any other channel's registry or to
\* the port's own, and returns one handle per channel of S.
C4_AddFansOut ==
  [][ ( /\ Calls("addListener")
         /\ argEvent \in InputChannel_EVENTS
         /\ Has(argOptions, "channels")
         /\ AllChannelNumbers(argOptions.channels) )
       => FansOutTo(Range(argOptions.channels), argEvent, argListener)]_vars

\* addListener on channels [1, 3] returned 2 handles; channels 1 and 3 hold
\* the new listener next to an older one, channel 2 holds only the older one.
C4_Witness ==
  /\ call = [op |-> "addListener", args |-> <<"noteon", "f", [channels |-> <<1, 3>>]>>]
  /\ ret.handles = << <<2, 1>>, <<2, 3>> >>
  /\ Len(Registry(channels, 1)) = 2
  /\ Len(Registry(channels, 3)) = 2
  /\ Len(Registry(channels, 2)) = 1

\* Some listener of the registry has that event name and, when a callback is
\* given, that callback.
HoldsMatching(map, e, cb) ==
  \E l \in Range(map) :
    l.event = e /\ (cb = Undefined \/ l.callback = cb)

\* C5: hasListener for a channel-scoped event name is conjunctive: it returns
\* true only if every channel of the resolved set holds a matching listener,
\* and false as soon as one channel holds none.
C5_HasIsConjunctive ==
  [][ ( /\ Calls("hasListener")
         /\ argEvent \in InputChannel_EVENTS
         /\ Has(argOptions, "channels")
         /\ AllChannelNumbers(argOptions.channels) )
       => /\ ~ret'.threw
          /\ ret'.flag = (\A ch \in Range(argOptions.channels) :
                            HoldsMatching(Registry(channels, ch), argEvent, argListener))]_vars

\* hasListener returned false while channels 1 and 3 hold a "noteon"
\* listener with callback f and channel 2 holds none; the port holds a
\* "clock" listener, so the answer is the one for channels [1, 2, 3].
C5_Witness ==
  /\ call = [op |-> "hasListener", args |-> <<"noteon", "f", [channels |-> <<1, 2, 3>>]>>]
  /\ ~ret.threw
  /\ ~ret.flag
  /\ HoldsMatching(Registry(channels, 1), "noteon", "f")
  /\ HoldsMatching(Registry(channels, 3), "noteon", "f")
  /\ Registry(channels, 2) = <<>>

\* C6 as stated: removeListener without an event name leaves the port's
\* registry and the registry of every channel empty, whatever the options
\* (checked here for the calls that return normally).
C6_RemoveAllClearsEverything ==
  [][ ( /\ Calls("removeListener")
         /\ argEvent = Undefined
         /\ ~ret'.threw )
       => /\ eventMap' = <<>>
          /\ \A ch \in 1..NumChannels : Registry(channels', ch) = <<>>]_vars

\* The listeners of a registry that are not of that event name.
OtherEvents(map, e) ==
  LET Other(l) == l.event # e IN SelectSeq(map, Other)

\* The options carry neither a context nor a remaining count.
NoCriteria(o) == ~Has(o, "context") /\ ~Has(o, "remaining")

\* C7: removeListener with a channel-scoped event name and no callback (and
\* no context or remaining option, which would narrow the removal) removes
\* every listener of that name from each channel of the resolved set (all 16
\* without options.channels) and leaves other names, the channels outside
\* the set and the port's registry unchanged; with an
\* input-wide name it removes that name's listeners from the port's registry
\* and changes no channel registry.
C7_RemoveByName ==
  [][ ( /\ Calls("removeListener")
         /\ argEvent # Undefined
         /\ argListener = Undefined
         /\ NoCriteria(argOptions)
         /\ ~ret'.threw )
       => IF argEvent \in InputChannel_EVENTS
          THEN LET set == IF Has(argOptions, "channels") THEN Range(argOptions.channels)
                          ELSE 1..NumChannels
               IN  /\ \A ch \in set :
                        Registry(channels', ch) = OtherEvents(Registry(channels, ch), argEvent)
                   /\ \A ch \in (1..NumChannels) \ set : channels'[ch] = channels[ch]
                   /\ eventMap' = eventMap
          ELSE /\ eventMap' = OtherEvents(eventMap, argEvent)
               /\ channels' = channels]_vars

\* After a removal, channel 1 holds a "controlchange" listener and no
\* "noteon" listener, while channel 2, outside the set, still holds both.
C7_Witness ==
  /\ call = [op |-> "removeListener",
             args |-> <<"noteon", Undefined, [channels |-> <<1, 3>>]>>]
  /\ ~ret.threw
  /\ HoldsMatching(Registry(channels, 1), "controlchange", Undefined)
  /\ ~HoldsMatching(Registry(channels, 1), "noteon", Undefined)
  /\ HoldsMatching(Registry(channels, 2), "controlchange", Undefined)
  /\ HoldsMatching(Registry(channels, 2), "noteon", Undefined)

\* The listener differs from the call in a criterion the call supplied.
Differs(l, e, cb, o) ==
  \/ l.event # e
  \/ cb # Undefined /\ l.callback # cb
  \/ Has(o, "context") /\ l.context # o.context
  \/ Has(o, "remaining") /\ l.remaining # o.remaining

\* The listeners of a registry that differ from the call.
Differing(map, e, cb, o) ==
  LET Stays(l) == Differs(l, e, cb, o) IN SelectSeq(map, Stays)

\* C8: removeListener with a callback and/or the context / remaining options
\* removes only the listeners that match every supplied criterion: in each
\* registry of the channel set (or the port's, for an input-wide name) the
\* listeners that differ in a supplied criterion stay, in their order, and
\* the registries outside the channel set are unchanged.
C8_RemoveOnlyMatching ==
  [][ ( /\ Calls("removeListener")
         /\ argEvent # Undefined
         /\ (argListener # Undefined \/ ~NoCriteria(argOptions))
         /\ ~ret'.threw )
       => IF argEvent \in InputChannel_EVENTS
          THEN LET set == IF Has(argOptions, "channels") THEN Range(argOptions.channels)
                          ELSE 1..NumChannels
               IN  /\ \A ch \in set :
                        Registry(channels', ch)
                          = Differing(Registry(channels, ch), argEvent, argListener, argOptions)
                   /\ \A ch \in (1..NumChannels) \ set : channels'[ch] = channels[ch]
                   /\ eventMap' = eventMap
          ELSE /\ eventMap' = Differing(eventMap, argEvent, argListener, argOptions)
               /\ channels' = channels]_vars

\* removeListener("noteon", f, {context: ctxA}) has run after two
\* addListener calls: every channel holds only the first listener, which has
\* the same event name and callback but the default context.
C8_Witness ==
  /\ call = [op |-> "removeListener", args |-> <<"noteon", "f", [context |-> "ctxA"]>>]
  /\ ~ret.threw
  /\ nListeners = 2
  /\ Len(Registry(channels, 1)) = 1
  /\ Registry(channels, 1)[1].event = "noteon"
  /\ Registry(channels, 1)[1].callback = "f"
  /\ Registry(channels, 1)[1].context = "target"
  /\ Registry(channels, 1)[1].id = 1
  /\ Registry(channels, 3) = Registry(channels, 1)
  /\ Registry(channels, 2) = Registry(channels, 1)

C10_AddRejectsBadChannel ==
  [][ ( /\ Calls("addListener")
         /\ argEvent \in InputChannel_EVENTS
         /\ Has(argOptions, "channels")
         /\ ~AllChannelNumbers(argOptions.channels) )
       => /\ ret'.threw
          /\ eventMap' = eventMap
          /\ channels' = channels]_vars

\* addListener("noteon", f, {channels: [1, 17]}) threw; channel 1, named
\* next to the invalid entry, holds only the listener it held before.
C10_Witness ==
  /\ call = [op |-> "addListener", args |-> <<"noteon", "f", [channels |-> <<1, 17>>]>>]
  /\ ret.threw
  /\ nListeners = 1
  /\ \A ch \in 1..NumChannels : Len(Registry(channels, ch)) = 1

\* The options without the channel list.
WithoutChannels(o) == [k \in DOMAIN o \ {"channels"} |-> o[k]]

\* C11: addListener for an input-wide event name creates exactly one
\* listener, at the end of the port's own registry, returns that single
\* listener (not a collection) and changes no channel registry; the family of
\* a name is decided by the event table alone, so options.channels (valid or
\* not) has no effect on an input-wide add, has or remove: the listener
\* created, the answer given and the listeners removed are those of the same
\* call without the channel list, and the call does not throw.
C11_InputWideIgnoresChannels ==
  [][ ( /\ (Calls("addListener") \/ Calls("hasListener") \/ Calls("removeListener"))
         /\ argEvent # Undefined
         /\ argEvent \notin InputChannel_EVENTS )
       => /\ ~ret'.threw
          /\ channels' = channels
          /\ Calls("addListener") =>
               /\ eventMap' = Append(eventMap, Listener(nListeners + 1, argEvent, argListener,
                                                        WithoutChannels(argOptions)))
               /\ ret'.shape = "listener"
               /\ ret'.handles = << <<nListeners + 1, 0>> >>
          /\ Calls("hasListener") =>
               /\ eventMap' = eventMap
               /\ ret'.flag = HoldsMatching(eventMap, argEvent, argListener)
          /\ Calls("removeListener") =>
               eventMap' = Differing(eventMap, argEvent, argListener,
                                     WithoutChannels(argOptions))]_vars

\* addListener("clock", f, {channels: [1, 3]}) returned a single listener,
\* the only one of the port's registry; channels 1 and 3 hold nothing but the
\* "noteon" listener they held before.
C11_Witness ==
  /\ call = [op |-> "addListener", args |-> <<"clock", "f", [channels |-> <<1, 3>>]>>]
  /\ ret.shape = "listener"
  /\ ret.handles = << <<2, 0>> >>
  /\ Len(eventMap) = 1
  /\ eventMap[1].event = "clock"
  /\ \A ch \in 1..NumChannels :
       Len(Registry(channels, ch)) = 1 /\ Registry(channels, ch)[1].event = "noteon"

\* ------------------------------------------------------------------------
\* Properties of the transport's notifications
\* ------------------------------------------------------------------------

\* The emissions of the log, in order.
Emissions == LET IsEmit(e) == e.k = "emit" IN SelectSeq(log, IsEmit)

\* The names of the emitted events, in order.
EmittedNames == [i \in DOMAIN Emissions |-> Emissions[i].name]

\* Every emission was made on the port's own registry.
AllOnPort == \A i \in DOMAIN Emissions : Emissions[i].on = 0

\* The frame of the message that was handled.
HandledFrame == call.args[1]

\* C18: a message with an unrecognized (reserved) status byte such as 0xF4
\* produces "midimessage" and then exactly one "unknownmidimessage" event,
\* both on the port's registry, no channel-scoped event, and no error.
C18_UnknownStatus ==
  (MessageHandled /\ Unrecognized(HandledFrame[1])) =>
    /\ EmittedNames = <<"midimessage", "unknownmidimessage">>
    /\ AllOnPort
    /\ EntriesOf("process") = {}
    /\ ~ret.threw

\* The frame [0xF4] was handled: the listener of "unknownmidimessage" was
\* invoked once, on the port.
C18_Witness ==
  /\ MessageHandled
  /\ HandledFrame = <<244>>
  /\ \E i \in DOMAIN log :
       log[i].k = "invoke" /\ log[i].name = "unknownmidimessage" /\ log[i].on = 0

\* The status bytes of the recognized system messages and their kinds.
SystemKinds ==
  (240 :> "sysex") @@ (241 :> "timecode") @@ (242 :> "songposition")
    @@ (243 :> "songselect") @@ (246 :> "tunerequest") @@ (248 :> "clock")
    @@ (250 :> "start") @@ (251 :> "continue") @@ (252 :> "stop")
    @@ (254 :> "activesensing") @@ (255 :> "reset")

\* C19: a system message of a recognized kind produces "midimessage" and then
\* exactly one event named after its kind, both on the port's registry, and
\* no channel processes it; the frame [0xF8] gives one "clock" event whose
\* data holds the status byte alone: no data byte and no song number.
C19_SystemKinds ==
  (MessageHandled /\ HandledFrame[1] \in DOMAIN SystemKinds) =>
    /\ EmittedNames = <<"midimessage", SystemKinds[HandledFrame[1]]>>
    /\ AllOnPort
    /\ EntriesOf("process") = {}
    /\ HandledFrame = <<248>> =>
         /\ Emissions[2].name = "clock"
         /\ Emissions[2].payload.data = <<248>>
         /\ ~Has(Emissions[2].payload, "song")

\* The frame [0xF8] was handled while a "clock" listener was registered and
\* channel 1 held a "noteon" listener: the listener of "clock" was invoked,
\* no other.
C19_Witness ==
  /\ MessageHandled
  /\ HandledFrame = <<248>>
  /\ Len(Registry(channels, 1)) = 1
  /\ { log[i].name : i \in EntriesOf("invoke") } = {"clock"}

\* C20: a songselect message with data byte v (every v in 0..127) gives one
\* "songselect" event that carries song = v + 1, in 1..128; the events of
\* every other name carry no song property.
C20_SongNumber ==
  MessageHandled =>
    /\ HandledFrame[1] = 243 =>
         /\ Cardinality({ i \in DOMAIN Emissions : Emissions[i].name = "songselect" }) = 1
         /\ \A i \in DOMAIN Emissions :
              Emissions[i].name = "songselect" =>
                /\ Has(Emissions[i].payload, "song")
                /\ Emissions[i].payload.song = HandledFrame[2] + 1
                /\ Emissions[i].payload.song \in 1..128
    /\ \A i \in DOMAIN Emissions :
         Emissions[i].name # "songselect" => ~Has(Emissions[i].payload, "song")

\* The frame [0xF3, 0x04] was handled: the "songselect" event carries song 5.
C20_Witness ==
  /\ MessageHandled
  /\ HandledFrame = <<243, 4>>
  /\ \E i \in DOMAIN Emissions :
       Emissions[i].name = "songselect" /\ Emissions[i].payload.song = 5

\* The most recent call was a state-change notification; its port.
StateChanged == call.op = "_onStateChange"

NotifiedPort == call.args[1]

\* The identity fields of a port, as a plain object.
IdentityOf(port) ==
  [ ref |-> "copy", connection |-> port.connection, id |-> port.id,
    manufacturer |-> port.manufacturer, name |-> port.name,
    state |-> port.state, type |-> port.type ]

\* C16: a state-change notification is translated to at most one event, on
\* the port's registry: "opened" when the connection is open, "closed" when
\* it is closed and the hardware connected, "disconnected" when it is closed
\* and the hardware disconnected; "opened" and "closed" carry the port itself
\* as target, "disconnected" a copy of the notification's identity fields.
C16_StateChangeEvent ==
  StateChanged =>
    /\ Len(Emissions) <= 1
    /\ AllOnPort
    /\ NotifiedPort.connection = "open" =>
         /\ EmittedNames = <<"opened">>
         /\ Emissions[1].payload.target = [ref |-> "this"]
    /\ (NotifiedPort.connection = "closed" /\ NotifiedPort.state = "connected") =>
         /\ EmittedNames = <<"closed">>
         /\ Emissions[1].payload.target = [ref |-> "this"]
    /\ (NotifiedPort.connection = "closed" /\ NotifiedPort.state = "disconnected") =>
         /\ EmittedNames = <<"disconnected">>
         /\ Emissions[1].payload.target = IdentityOf(NotifiedPort)

\* A closed + disconnected notification was handled: the listener of
\* "disconnected" was invoked with an event whose target is a copy that
\* holds the port's id.
C16_Witness ==
  /\ StateChanged
  /\ NotifiedPort.connection = "closed"
  /\ NotifiedPort.state = "disconnected"
  /\ \E i \in DOMAIN log : log[i].k = "invoke" /\ log[i].name = "disconnected"
  /\ Emissions[1].payload.target.ref = "copy"
  /\ Emissions[1].payload.target.id = "port-id"

\* The port of the notification the step handles.
argPort == call'.args[1]

\* C17: a notification with connection = pending and state = disconnected
\* emits nothing and reports nothing; any other combination that is not
\* mapped to an event emits nothing, reports one unrecognized-transition
\* diagnostic and does not fail; both leave listeners, channels and
\* forwarders unchanged.
C17_UnmappedStateChange ==
  [][ ( /\ Calls("_onStateChange")
         /\ argPort.connection # "open"
         /\ argPort.connection # "closed" )
       => /\ ~ret'.threw
          /\ eventMap' = eventMap
          /\ channels' = channels
          /\ forwarders' = forwarders
          /\ IF argPort.connection = "pending" /\ argPort.state = "disconnected"
             THEN log' = <<>>
             ELSE /\ Len(log') = 1
                  /\ log'[1].k = "warn"]_vars

\* A pending + connected notification was handled by a port that holds a
\* listener of "opened" and a forwarder: the diagnostic is all there is.
C17_Witness ==
  /\ StateChanged
  /\ NotifiedPort.connection = "pending"
  /\ NotifiedPort.state = "connected"
  /\ EntriesOf("warn") = {1}
  /\ \E i \in DOMAIN eventMap : eventMap[i].event = "opened"
  /\ forwarders # <<>>

\* ------------------------------------------------------------------------
\* Properties of the listeners' lifecycle
\* ------------------------------------------------------------------------

\* The frame of the message the step handles, and the channel it is for
\* (0 for a system message).
argFrame == call'.args[1]

FrameChannel(data) == IF data[1] \in 128..239 THEN (data[1] % 16) + 1 ELSE 0

Registries(map, chans) ==
  [on \in 0..NumChannels |-> IF on = 0 THEN map ELSE chans[on].eventMap]

\* The listeners of a registry that have that id.
WithId(map, id) == LET Is(l) == l.id = id IN SelectSeq(map, Is)

\* Number of invocations of the listener id of registry on in a log.
InvocationsOf(entries, on, id) ==
  Cardinality({ i \in DOMAIN entries :
                  entries[i].k = "invoke" /\ entries[i].on = on /\ entries[i].arg = id })

\* C13: a listener registered with remaining = n is invoked for at most n
\* emitted events: no registered listener has a count below 1; a message
\* invokes a counted listener at most as often as its count allows, the count
\* goes down by one per invocation and the listener leaves its registry when
\* the count reaches zero; a listener that is not registered is not invoked.
\* addOneTimeListener registers every listener it creates with remaining = 1,
\* whatever count the caller passed.
C13_CountedInvocations ==
  [][ LET before == Registries(eventMap, channels)
          after  == Registries(eventMap', channels')
      IN  /\ \A on \in 0..NumChannels : \A l \in Range(after[on]) :
               l.remaining = Infinity \/ l.remaining >= 1
          /\ Calls("_onMidiMessage") =>
               /\ \A on \in 0..NumChannels : \A l \in Range(before[on]) :
                    LET k == InvocationsOf(log', on, l.id)
                    IN  IF l.remaining = Infinity
                        THEN WithId(after[on], l.id) = <<l>>
                        ELSE /\ k <= l.remaining
                             /\ WithId(after[on], l.id) =
                                  IF k = l.remaining THEN <<>>
                                  ELSE <<[l EXCEPT !.remaining = l.remaining - k]>>
               /\ \A i \in DOMAIN log' :
                    log'[i].k = "invoke" =>
                      \E l \in Range(before[log'[i].on]) :
                        l.id = log'[i].arg /\ l.event = log'[i].name
          /\ (Calls("addOneTimeListener") /\ ~ret'.threw) =>
               /\ ret'.handles # <<>>
               /\ \A h \in Range(ret'.handles) :
                    /\ Len(WithId(after[h[2]], h[1])) = 1
                    /\ WithId(after[h[2]], h[1])[1].remaining = 1 ]_vars

\* A "midimessage" listener registered with remaining = 2 was invoked by the
\* message just handled and is still registered, with one invocation left.
C13_Witness ==
  /\ call.op = "_onMidiMessage"
  /\ \E i \in DOMAIN log :
       log[i].k = "invoke" /\ log[i].on = 0 /\ log[i].name = "midimessage" /\ log[i].arg = 1
  /\ Len(eventMap) = 1
  /\ eventMap[1].id = 1
  /\ eventMap[1].remaining = 1

\* ------------------------------------------------------------------------
\* Properties of the receive path, step by step
\* ------------------------------------------------------------------------

\* Positions of the log entries written while a message is handled.
Handling == DOMAIN log

\* The ordinal of the message a log entry belongs to.
MsgOf(i) == log[i].payload.msg

\* C14: the handling of one message (catch-all emission, routing, channel
\* processing, listener callbacks, forwarding) runs to completion before the
\* next message of the port is handled: at most one activation of the handler
\* is in progress, so no channel is touched by two messages at once; in the
\* record of a burst everything caused by an earlier message precedes
\* everything caused by a later one; and a message's handling starts only
\* after the handler has returned for the message before it.
C14_RunToCompletion ==
  /\ Len(running) <= 1
  /\ \A i, j \in Handling : i < j => MsgOf(i) <= MsgOf(j)
  /\ \A j \in Handling :
       (log[j].k = "start" /\ MsgOf(j) > 1) =>
         \E i \in 1..(j - 1) : log[i].k = "return" /\ MsgOf(i) = MsgOf(j) - 1

\* Two messages were handled to the end; the second arrived while the first
\* was being handled, and its handling started only after a listener had
\* been invoked for the first and the first had been forwarded.
C14_Witness ==
  /\ Count(log, "return") = 2
  /\ \E a, c, d \in DOMAIN log :
       /\ a < c /\ c < d
       /\ log[a].k = "invoke" /\ MsgOf(a) = 1
       /\ log[c].k = "forward" /\ MsgOf(c) = 1
       /\ log[d].k = "start" /\ MsgOf(d) = 2 /\ log[d].payload.waited

\* The kinds of entry that end the emission in progress.
Boundaries == {"start", "emit", "parseEvent", "process", "forward", "return"}

\* Position of the first entry after p that ends the emission p belongs to,
\* or one past the end of the log.
EmissionEnd(p) ==
  LET later == { q \in DOMAIN log : q > p /\ log[q].k \in Boundaries }
  IN  IF later = {} THEN Len(log) + 1
      ELSE CHOOSE q \in later : \A x \in later : q <= x

\* The ids of the listeners invoked between positions p and q, in order.
InvokedBetween(p, q) ==
  LET IsInvoke(e) == e.k = "invoke"
      seen == SelectSeq(SubSeq(log, p + 1, q - 1), IsInvoke)
  IN  [i \in DOMAIN seen |-> seen[i].arg]

\* C15: removing a listener while an emission is in progress does not affect
\* the listeners already scheduled or invoked in that emission: every
\* emission invokes the listeners that were registered when it started, in
\* order and without skipping one, whatever the callbacks remove; and a
\* listener that a removeListener call named is not invoked by any later
\* emission.
C15_RemovalDuringEmission ==
  /\ \A p \in DOMAIN log :
       log[p].k = "emit" =>
         LET ids  == log[p].payload.scheduled
             seen == InvokedBetween(p, EmissionEnd(p))
         IN  /\ Len(seen) <= Len(ids)
             /\ seen = SubSeq(ids, 1, Len(seen))
             /\ EmissionEnd(p) <= Len(log) => seen = ids
  /\ \A i \in DOMAIN log :
       log[i].k = "removeListener" =>
         \A j \in DOMAIN log :
           ( /\ j >= EmissionEnd(i)
             /\ log[j].k = "invoke" )
           => <<log[j].arg, log[j].on>> \notin log[i].payload.named

\* On channel 1 the listener 1 removed the "noteon" listener 2 from inside
\* its callback; listener 2, already scheduled, was invoked after that, and a
\* later "noteon" emission on channel 1 scheduled listener 1 alone.
C15_Witness ==
  \E i, j, k \in DOMAIN log :
    /\ i < j /\ j < k
    /\ log[i].k = "removeListener"
    /\ log[i].arg = 1
    /\ <<2, 1>> \in log[i].payload.named
    /\ log[j].k = "invoke" /\ log[j].arg = 2 /\ log[j].on = 1
    /\ log[k].k = "emit" /\ log[k].on = 1 /\ log[k].name = "noteon"
    /\ log[k].payload.scheduled = <<1>>

\* ------------------------------------------------------------------------
\* Validation at the subscription API
\* ------------------------------------------------------------------------

\* C26: port-level hasListener for a channel-specific event name called
\* without options.channels throws an Error ('options.channels' must be
\* defined) instead of returning a boolean, and changes no registry.
C26_HasRequiresChannels ==
  [][ ( /\ Calls("hasListener")
         /\ argEvent \in InputChannel_EVENTS
         /\ ~Has(argOptions, "channels") )
       => /\ ret'.threw
          /\ ret'.shape = "Error"
          /\ eventMap' = eventMap
          /\ channels' = channels]_vars

\* hasListener("noteon", f) without options threw although every channel
\* holds a "noteon" listener with callback f.
C26_Witness ==
  /\ call = [op |-> "hasListener", args |-> <<"noteon", "f", NoOptions>>]
  /\ ret.threw
  /\ \A ch \in 1..NumChannels : HoldsMatching(Registry(channels, ch), "noteon", "f")

\* ------------------------------------------------------------------------
\* Properties of the forwarder API
\* ------------------------------------------------------------------------

\* The forwarder a forwarder call was made with.
argForwarder == call'.args[1]

\* How many times the forwarder is in the list.
Attachments(fws, f) == Cardinality({ i \in DOMAIN fws : fws[i] = f })

\* The other forwarders of the list, in the order of the list.
Others(fws, f) == LET Other(item) == item # f IN SelectSeq(fws, Other)

\* C28: hasForwarder(f) is true exactly when f has been attached and not
\* removed since: addForwarder(f) adds one attachment of f and
\* removeForwarder(f) leaves none, however many there were, both leave the
\* other forwarders and their order as they were, no other step changes the
\* list, and hasForwarder(f) tells whether the list holds f. A message is
\* passed to f once per attachment, so not at all once f was removed.
C28_ForwarderLifecycle ==
  [][ /\ Calls("addForwarder") =>
           /\ Attachments(forwarders', argForwarder) = Attachments(forwarders, argForwarder) + 1
           /\ Others(forwarders', argForwarder) = Others(forwarders, argForwarder)
      /\ Calls("removeForwarder") =>
           /\ Attachments(forwarders', argForwarder) = 0
           /\ forwarders' = Others(forwarders, argForwarder)
      /\ Calls("hasForwarder") =>
           /\ ret'.shape = "boolean"
           /\ ret'.flag = (Attachments(forwarders, argForwarder) > 0)
      /\ ~(Calls("addForwarder") \/ Calls("removeForwarder")) => forwarders' = forwarders
      /\ Calls("_onMidiMessage") =>
           \A f \in ForwarderHandles :
             Cardinality({ i \in DOMAIN log' : log'[i].k = "forward" /\ log'[i].name = f })
               = Attachments(forwarders, f) ]_vars

\* removeForwarder(fwB) dropped fwB from the second and the third place of
\* the list and left fwA before fwC.
C28_Witness ==
  /\ call = [op |-> "removeForwarder", args |-> <<"fwB">>]
  /\ forwarders = <<"fwA", "fwC">>
  /\ log = <<Entry("detach", 0, "fwB", 2), Entry("detach", 0, "fwB", 3)>>

\* ------------------------------------------------------------------------
\* Forwarders changed while a message is handled
\* ------------------------------------------------------------------------

\* The step is the return of _onMidiMessage: the log grows by the forwarding
\* of the message and by the entry of the return.
Returning == Len(log') > Len(log) /\ log'[Len(log')].k = "return"

\* The forwarders the returning activation passed its message to, in order.
PassedTo ==
  [i \in 1..(Len(log') - Len(log) - 1) |-> log'[Len(log) + i].name]

\* The forwarder calls that callbacks made on f during the dispatch of
\* message m, as positions in the log.
ForwarderCalls(entries, m, f) ==
  { i \in DOMAIN entries : /\ entries[i].k \in {"addForwarder", "removeForwarder"}
                            /\ entries[i].name = f
                            /\ entries[i].payload.msg = m }

\* The last of those calls was of kind k.
LastForwarderCall(entries, m, f, k) ==
  \E i \in ForwarderCalls(entries, m, f) :
    /\ entries[i].k = k
    /\ \A j \in ForwarderCalls(entries, m, f) : j <= i

\* C29: the forwarders that receive a message are those attached when its
\* dispatch has finished, not those attached when it arrived: the message
\* is passed to the forwarder list as it is when every emission has
\* returned, so a forwarder attached by a listener callback during the
\* dispatch of the message receives it and a forwarder removed by a
\* listener callback during the dispatch does not.
C29_ForwardersAtEndOfDispatch ==
  [][ Returning =>
        LET m == log'[Len(log')].payload.msg
        IN  /\ PassedTo = forwarders
            /\ \A i \in (Len(log) + 1)..(Len(log') - 1) : log'[i].k = "forward"
            /\ \A f \in Forwarders :
                  /\ LastForwarderCall(log, m, f, "addForwarder")
                       => \E i \in DOMAIN PassedTo : PassedTo[i] = f
                  /\ LastForwarderCall(log, m, f, "removeForwarder")
                       => \A i \in DOMAIN PassedTo : PassedTo[i] # f ]_vars

\* A message arrived while fwA alone was attached; during its dispatch one
\* callback attached fwB and another removed fwA, and the message was passed
\* to fwB alone.
C29_Witness ==
  \E s, a, d, p \in DOMAIN log :
    /\ s < a /\ s < d /\ a < p /\ d < p
    /\ log[s].k = "start" /\ log[s].payload.attached = <<"fwA">>
    /\ log[a].k = "addForwarder" /\ log[a].name = "fwB"
    /\ log[d].k = "removeForwarder" /\ log[d].name = "fwA"
    /\ log[p].k = "forward" /\ log[p].name = "fwB"
    /\ p + 1 \in DOMAIN log /\ log[p + 1].k = "return"
    /\ \A i \in {a, d, p, p + 1} : log[i].payload.msg = log[s].payload.msg
    /\ \A i \in DOMAIN log :
         (log[i].k = "forward" /\ log[i].payload.msg = log[s].payload.msg) => i = p

\* ------------------------------------------------------------------------
\* Properties of open, close and destroy
\* ------------------------------------------------------------------------

\* The step is the call of the asynchronous method op, up to its await.
Enters(op) == call = NoCall /\ call'.op = op

\* The step is the resumption of the asynchronous call op after the
\* transport answered.
Resumes(op) == awaiting.op = op /\ awaiting' = NotAwaiting

\* The entries of kind k among those the step added to the log.
Added(k) == { i \in (Len(log) + 1)..Len(log') : log'[i].k = k }

\* The transport answered with that word (accepts, rejects) and that error.
Answered(word, err) ==
  \E i \in Added("transport") : log'[i].name = word /\ log'[i].arg = err

\* The promise was settled once, in that way and with that value.
SettledOnce(how, value) ==
  /\ Cardinality(Added("settle")) = 1
  /\ \A i \in Added("settle") : log'[i].name = how /\ log'[i].arg = value

\* C22: when the transport rejects open() or close(), the promise of that
\* call, and of no other, is rejected with the transport's error and no
\* event is emitted; when the transport accepts, the promise is fulfilled
\* with the port itself; close() on a port that holds no MIDIInput is
\* fulfilled with the port without calling the transport.
C22_TransportOutcome ==
  [][ /\ \A op \in {"open", "close"} :
           Resumes(op) =>
             /\ call' = call /\ call.op = op /\ ret'.op = op
             /\ \A e \in TransportErrors :
                  Answered("rejects", e) =>
                    /\ ret'.threw /\ ret'.shape = "rejected"
                    /\ SettledOnce("rejected", e)
                    /\ Added("emit") = {} /\ Added("invoke") = {}
                    /\ eventMap' = eventMap /\ channels' = channels
             /\ Answered("accepts", Undefined) =>
                  /\ ~ret'.threw /\ ret'.shape = "fulfilled"
                  /\ SettledOnce("fulfilled", "this")
             /\ Answered("accepts", Undefined)
                  \/ \E e \in TransportErrors : Answered("rejects", e)
      /\ (Enters("close") /\ ~_midiInput.held) =>
           /\ ~ret'.threw /\ ret'.shape = "fulfilled"
           /\ log' = Settle("fulfilled", "this")
           /\ awaiting' = NotAwaiting ]_vars

\* The transport rejected close() with InvalidStateError and the promise of
\* close() was rejected with that error, while the port holds a listener
\* for "opened" that was not invoked.
C22_Witness ==
  /\ call.op = "close"
  /\ ret = Rejected("close")
  /\ log = Asked("close")
             \o <<Entry("transport", 0, "rejects", "InvalidStateError")>>
             \o Settle("rejected", "InvalidStateError")
  /\ \E l \in Range(eventMap) : l.event = "opened"

\* The step is the resumption of destroy() after close() was rejected with
\* the error e.
DestroyFails(e) == Resumes("destroy") /\ Answered("rejects", e)

\* Listeners, channels and forwarders are cleared and the handlers of the
\* MIDIInput are unlinked.
TornDown(map, chans, fws, midiInput) ==
  /\ map = <<>>
  /\ chans = <<>>
  /\ fws = <<>>
  /\ ~midiInput.onstatechange
  /\ ~midiInput.onmidimessage

\* C30: if the transport rejects close() during destroy(), destroy() is
\* rejected with that error after listeners, channels and forwarders were
\* cleared and the handlers unlinked (they are so from the moment destroy()
\* awaits), and the port keeps its MIDIInput; once a destroy() has succeeded
\* the MIDIInput is no longer held, and a further destroy() is fulfilled
\* without calling the transport.
C30_DestroyWithRejectedClose ==
  [][ /\ Enters("destroy") =>
           /\ TornDown(eventMap', channels', forwarders', _midiInput')
           /\ (Added("transport") # {}) = _midiInput.held
           /\ _midiInput'.held = _midiInput.held
      /\ \A e \in TransportErrors :
           DestroyFails(e) =>
             /\ ret' = Rejected("destroy")
             /\ SettledOnce("rejected", e)
             /\ TornDown(eventMap, channels, forwarders, _midiInput)
             /\ TornDown(eventMap', channels', forwarders', _midiInput')
             /\ _midiInput.held /\ _midiInput'.held
      /\ (Resumes("destroy") /\ ~\E e \in TransportErrors : Answered("rejects", e)) =>
           /\ ret' = Fulfilled("destroy")
           /\ ~_midiInput'.held
           /\ _midiInput.held => Answered("accepts", Undefined)
           /\ ~_midiInput.held => Added("transport") = {}
      /\ (~_midiInput.held /\ ~Resumes("destroy")) => ~_midiInput'.held ]_vars

\* destroy() was rejected with InvalidAccessError: the port still holds its
\* MIDIInput, whose handlers are unlinked, and has no channel left.
C30_Witness ==
  /\ call.op = "destroy"
  /\ ret = Rejected("destroy")
  /\ Len(log) = NumChannels + 3
  /\ SubSeq(log, NumChannels + 1, NumChannels + 3)
       = Asked("close")
           \o <<Entry("transport", 0, "rejects", "InvalidAccessError")>>
           \o Settle("rejected", "InvalidAccessError")
  /\ _midiInput = [held |-> TRUE, onstatechange |-> FALSE, onmidimessage |-> FALSE]
  /\ channels = <<>>

\* A destroy() of a port that holds no MIDIInput was fulfilled without a
\* call to the transport.
C30_WitnessAgain ==
  /\ call.op = "destroy"
  /\ ret = Fulfilled("destroy")
  /\ log = Settle("fulfilled", Undefined)
  /\ ~_midiInput.held

\* The step is a notification of the MIDIInput whose handler is null.
NotHeard == call = NoCall /\ call'.op \in {"onmidimessage", "onstatechange"}

\* C25: the port has its 16 channels, numbered 1..16, from construction
\* until destroy(), and no other operation changes that set. When destroy()
\* has completed, the port's registry is empty, every channel was destroyed
\* with an empty registry, the channel list and the forwarder list are
\* empty and both handlers of the MIDIInput are unlinked; they stay
\* unlinked, so no later notification of the transport runs a handler of
\* the port: it causes no event and no forward, whatever listeners and
\* forwarders were added since.
C25_SixteenChannelsUntilDestroy ==
  /\ DOMAIN channels = 1..NumChannels
  /\ [][ /\ ~Enters("destroy") => DOMAIN channels' = DOMAIN channels
         /\ DOMAIN channels' = 1..NumChannels \/ channels' = <<>>
         /\ Enters("destroy") =>
              /\ Cardinality(Added("destroy")) = Len(channels)
              /\ \A i \in Added("destroy") : log'[i].arg = 0
         /\ (Resumes("destroy") /\ ret' = Fulfilled("destroy")) =>
              /\ TornDown(eventMap', channels', forwarders', _midiInput')
              /\ ~_midiInput'.held
         /\ ~_midiInput.onmidimessage =>
              /\ ~_midiInput'.onmidimessage
              /\ ~Calls("_onMidiMessage")
         /\ ~_midiInput.onstatechange =>
              /\ ~_midiInput'.onstatechange
              /\ ~Calls("_onStateChange")
         /\ NotHeard =>
              /\ log' = <<>>
              /\ eventMap' = eventMap /\ channels' = channels
              /\ forwarders' = forwarders ]_vars

\* After destroy() a "clock" listener and a forwarder were attached to the
\* port; the MIDIInput then received a clock frame, which caused no event
\* and no forward.
C25_Witness ==
  /\ call = [op |-> "onmidimessage", args |-> << <<248>> >>]
  /\ log = <<>>
  /\ ~_midiInput.held
  /\ channels = <<>>
  /\ forwarders = <<"fwA">>
  /\ \E l \in Range(eventMap) : l.event = "clock"

\* ------------------------------------------------------------------------
\* Properties of octaveOffset
\* ------------------------------------------------------------------------

\* The value is a number without a fractional part.
IsInteger(value) == value.t = "number" /\ value.tenths % 10 = 0

\* C27 as stated: assigning a value that is not an integer to octaveOffset
\* raises a TypeError and leaves the stored offset unchanged, so the stored
\* offset is an integer in every reachable state.
C27_OffsetIsInteger ==
  [][ /\ (Calls("set octaveOffset") /\ ~IsInteger(call'.args[1])) =>
           /\ ret'.threw
           /\ ret'.shape = "TypeError"
           /\ _octaveOffset' = _octaveOffset
      /\ IsInteger(_octaveOffset') ]_vars

\* ------------------------------------------------------------------------
\* Properties of the channels
\* ------------------------------------------------------------------------

\* C21: a channel message with status byte s in 0x80..0xEF is processed by
\* the channel numbered (s & 0x0F) + 1 and by no other: every entry of its
\* handling after the port's catch-all emission is on that channel, and
\* the parameter-assembly state, the mode flags and the listeners of the 15
\* other channels are after the message what they were before.
C21_ChannelIsolation ==
  [][ (Calls("_onMidiMessage") /\ argFrame[1] \in 128..239) =>
        LET own == (argFrame[1] % 16) + 1
        IN  /\ \E i \in DOMAIN log' : log'[i].k = "process" /\ log'[i].on = own
            /\ \A i \in DOMAIN log' :
                 log'[i].k \in {"process", "emit", "invoke"} => log'[i].on \in {0, own}
            /\ \A i \in DOMAIN log' :
                 (log'[i].on = 0 /\ log'[i].k \in {"emit", "invoke"})
                   => log'[i].name = "midimessage"
            /\ \A ch \in (1..NumChannels) \ {own} : channels'[ch] = channels[ch] ]_vars

\* The LSB of an RPN selection was received on channel 1, which selected
\* parameter 3 * 128 + 3 and emitted "rpn" there, while channel 16 is in the
\* middle of an NRPN selection, is in mono mode and holds a listener that
\* has its one invocation left.
C21_Witness ==
  /\ call = [op |-> "_onMidiMessage", args |-> << <<176, 100, 3>> >>]
  /\ \E i \in DOMAIN log : log[i].k = "emit" /\ log[i].on = 1 /\ log[i].name = "rpn"
  /\ channels[1].paramType = "rpn" /\ channels[1].paramLsb = 3
  /\ channels[16].paramType = "nrpn" /\ channels[16].paramLsb = Unset
  /\ channels[16].mono = "mono"
  /\ \E l \in Range(channels[16].eventMap) : l.remaining = 1

\* ------------------------------------------------------------------------
\* Properties of the parameter assembly
\* ------------------------------------------------------------------------

\* The frame of the m-th message of the burst the log describes.
FrameOf(m) ==
  LET i == CHOOSE j \in DOMAIN log : log[j].k = "start" /\ log[j].payload.msg = m
  IN  log[i].payload.data

\* The emissions of an event of one of those names, as positions in the log.
EmissionsOf(names) == { i \in DOMAIN log : log[i].k = "emit" /\ log[i].name \in names }

\* The names of the derived events of a parameter type.
DerivedNames(type) == { ParameterEvents[type][kind] : kind \in DOMAIN ParameterEvents[type] }

\* All of the burst's frames have been handled.
BurstHandled(n) == Count(log, "return") = n /\ running = <<>> /\ pending = <<>>

\* C23: for all msb and lsb in 0..127, the sequence select-MSB, select-LSB,
\* data-entry-MSB = msb, data-entry-LSB = lsb on one channel gives exactly
\* one parameter-selected event (rpn or nrpn), by the select-LSB, exactly
\* one coarse data-entry event, by the data-entry-MSB, and exactly one fine
\* data-entry event, by the data-entry-LSB, whose value is msb * 128 + lsb;
\* no other derived event is emitted.
C23_ParameterValue ==
  BurstHandled(4) =>
    LET type  == IF FrameOf(1)[2] = 101 THEN "rpn" ELSE "nrpn"
        other == IF type = "rpn" THEN "nrpn" ELSE "rpn"
        msb   == FrameOf(3)[3]
        lsb   == FrameOf(4)[3]
        names == ParameterEvents[type]
    IN  /\ Cardinality(EmissionsOf({names.selected})) = 1
        /\ \A i \in EmissionsOf({names.selected}) :
             log[i].payload.msg = 2 /\ log[i].on = 1
        /\ Cardinality(EmissionsOf({names.coarse})) = 1
        /\ \A i \in EmissionsOf({names.coarse}) : log[i].payload.msg = 3
        /\ Cardinality(EmissionsOf({names.fine})) = 1
        /\ \A i \in EmissionsOf({names.fine}) :
             /\ log[i].payload.msg = 4
             /\ log[i].payload.value = msb * 128 + lsb
        /\ EmissionsOf(DerivedNames(other) \cup {names.increment, names.decrement}) = {}

\* An NRPN was selected and given the value 127 * 128 + 126: the fine event
\* carries 16382.
C23_Witness ==
  /\ BurstHandled(4)
  /\ FrameOf(1) = <<176, 99, 0>> /\ FrameOf(2) = <<176, 98, 1>>
  /\ FrameOf(3) = <<176, 6, 127>> /\ FrameOf(4) = <<176, 38, 126>>
  /\ \E i \in EmissionsOf({"nrpn-dataentryfine"}) : log[i].payload.value = 16382

\* The emissions made for the m-th message, as positions in the log.
EmissionsFor(m) == { i \in DOMAIN log : log[i].k = "emit" /\ log[i].payload.msg = m }

\* The m-th message has been handled.
Handled(m) == \E i \in DOMAIN log : log[i].k = "return" /\ log[i].payload.msg = m

\* The events every control change fires: the catch-all, the literal event
\* and the number-qualified one.
PlainNames == {"midimessage", "controlchange"} \cup Range(ControlChangeNames)

\* A parameter was selected by one of the messages a..b.
SelectedBy(a, b) ==
  \E i \in EmissionsOf({"rpn", "nrpn"}) : log[i].payload.msg \in a..b

\* C24: after a parameter has been selected on a channel, the null
\* parameter number (127, 127) resets the channel's assembly to (None,
\* Unset) without a derived event, and every data-entry control change
\* received after it and before a new selection fires only the plain
\* controlchange events, no rpn / nrpn derived event. (In the sequence, the
\* parameter is selected by message 2 and the null number is complete with
\* message 5.)
C24_NullParameter ==
  /\ Handled(5) =>
       /\ SelectedBy(2, 2)
       /\ \A i \in EmissionsFor(5) : log[i].name \in PlainNames
  /\ (Handled(5) /\ Count(log, "start") = 5) =>
       /\ channels[1].paramType = "none"
       /\ channels[1].paramMsb = Unset /\ channels[1].paramLsb = Unset
  /\ \A m \in 6..(5 + MaxTail) :
       (Handled(m) /\ FrameOf(m)[2] \in {6, 38, 96, 97} /\ ~SelectedBy(5, m - 1)) =>
         \A i \in EmissionsFor(m) : log[i].name \in PlainNames

\* An RPN was selected and had its coarse value entered; after the null
\* parameter number a data-entry MSB, a data-entry LSB and a data increment
\* were received, and each fired its three plain events only.
C24_Witness ==
  /\ Handled(8)
  /\ FrameOf(1) = <<176, 101, 0>>
  /\ \E i \in EmissionsFor(2) : log[i].name = "rpn"
  /\ \E i \in EmissionsFor(3) : log[i].name = "rpn-dataentrycoarse"
  /\ FrameOf(5) = <<176, 100, 127>>
  /\ FrameOf(6) = <<176, 6, 5>> /\ FrameOf(7) = <<176, 38, 5>> /\ FrameOf(8) = <<176, 96, 0>>
  /\ \A m \in 6..8 : Cardinality(EmissionsFor(m)) = 3
  /\ channels[1].paramType = "none"

\* ------------------------------------------------------------------------
\* Properties of the options object
\* ------------------------------------------------------------------------

\* The two records agree on every key outside keys.
SameBut(after, before, keys) ==
  /\ DOMAIN after \ keys = DOMAIN before \ keys
  /\ \A k \in DOMAIN before \ keys : after[k] = before[k]

\* options.channels after a call that fills in a missing list.
ChannelsFilled(after, before) ==
  /\ Has(after, "channels")
  /\ after.channels = IF Has(before, "channels") THEN before.channels
                      ELSE MIDI_CHANNEL_NUMBERS

\* options.channels after a call that leaves the key alone.
ChannelsAlone(after, before) ==
  /\ Has(after, "channels") <=> Has(before, "channels")
  /\ Has(before, "channels") => after.channels = before.channels

\* The listeners a call created, as they stand in their registries.
Created(handles, map, chans) ==
  { l \in UNION { Range(Registries(map, chans)[h[2]]) : h \in Range(handles) } :
      \E h \in Range(handles) : l.id = h[1] }

C31_WitnessHas ==
  /\ call.op = "hasListener"
  /\ call.args[1] = "noteon"
  /\ callerOptions.asWritten = NoOptions
  /\ "addOneTimeListener" \in callerOptions.passedTo
  /\ call.args[3] = [remaining |-> 1, channels |-> MIDI_CHANNEL_NUMBERS]
  /\ ~ret.threw
  /\ ret.flag

\* The note on channel 1 that followed invoked the listener of the later
\* addListener once and took it out of the registry of channel 1.
C31_WitnessOnce ==
  /\ call.op = "_onMidiMessage"
  /\ callerOptions.asWritten = NoOptions
  /\ callerOptions.passedTo = {"addOneTimeListener", "addListener"}
  /\ InvocationsOf(log, 1, 2) = 1
  /\ channels[1].eventMap = <<>>
  /\ Len(channels[2].eventMap) = 2

====
